---------------------------- MODULE Spec2Model ----------------------------
(***************************************************************************)
(* sdrglue: the fast-convolution filter bank (src/sdrglue/src/fcfb/mod.rs) *)
(* and the loops that drive it (main.rs, tx_dsp.rs).                       *)
(*                                                                         *)
(* Numbers.  A ComplexSample is modelled exactly, as an element of the     *)
(* ring Z[z] with z = exp(2*pi*j/8): the tuple <<a,b,c,d>> stands for      *)
(* a + b*z + c*z^2 + d*z^3 and z^4 = -1.  Every twiddle factor of a        *)
(* transform of size 2, 4 or 8 is a power of z, so the transforms of       *)
(* rustfft (unnormalised, as its documentation states) are computed        *)
(* without rounding.  Weights that multiply spectra are integers of this   *)
(* ring.  The filter design (raised_cosine_weights) is modelled in f32:    *)
(* a Sample there is <<sign, mantissa, exponent>>.                         *)
(*                                                                         *)
(* Vectors are functions over 0 .. n-1, indexed as in the source.          *)
(***************************************************************************)
EXTENDS Integers, Sequences, FiniteSets, TLC

VARIABLES
    pc,             \* position of the driver of the specification at hand
    size,           \* InputBuffer.size: [new, overlap]
    buffer,         \* InputBuffer.buffer
    prevTail,       \* history: buffer[new .. new+overlap) at the end of the last tick
    ticks,          \* history: number of completed ticks
    build,          \* "debug" (overflow checks on) or "release" (usize wraps)
    rc_args,        \* arguments of a raised_cosine_weights call
    rc_result,      \* what the call returned: [abort, weights]
    synth_input,    \* TxChannel.synth_input, a SynthesisInputProcessor: [weights, result]
    synth_bank,     \* SynthesisOutputProcessor: [ifft_size, buffer, buffer_state]
    synth_out,      \* the slice the last SynthesisOutputProcessor.process returned
    add_hist,       \* history: the add() calls in a row, each with the bank before it
    added_since,    \* history: add() was called since the last process() or construction
    idle_process,   \* history: "none", or the buffer_state found by the last process()
                    \* when no add() had come since the process() before it
    source,         \* the signal source: [bin, n], a tone at `bin`, n samples delivered
    analysis_bank,  \* AnalysisInputProcessor: [fft_size, fft_result]
    processors,     \* the AnalysisOutputProcessors: each [center_bin, weights, buffer]
    rx_out,         \* the slice each AnalysisOutputProcessor.process returned last
    gathered,       \* history: each processor's buffer right before its inverse transform
    error_count,    \* main: error_count
    failed_since_ok,\* history: failed receives since the last successful one
    slice_written,  \* history: a failed receive since the last rx_dsp.process wrote into its slice
    sdr,            \* the device: "working", or "broken" (every receive fails from then on)
    call,           \* a single call of the filter bank's interface: [op, ..arguments..]
    outcome,        \* what the call did: [abort, ..] with the object after the call
    sweep,          \* SweepGenerator: [sweep_length, sample_counter, phase, ..]
    sweep_calls,    \* history: number of sample() calls so far
    sweep_freq,     \* history: the frequency the last sample() call added to the phase
    trace,          \* history: the calls the last handler made, in order
    ifft_since_add, \* history: inverse transforms the accumulator ran since the last add()
    tx_processors   \* TxDsp.processors: the TxChannels, each [synth_input, size, buffer]

bufVars == <<size, buffer, prevTail, ticks>>
rcVars == <<build, rc_args, rc_result>>
syVars == <<synth_input, synth_bank, synth_out, add_hist, added_since, idle_process>>
anVars == <<source, analysis_bank, processors, rx_out, gathered>>

loopVars == <<error_count, failed_since_ok, slice_written, sdr>>

\* the variables of the specifications further down
callVars == <<call, outcome>>
sweepVars == <<sweep, sweep_calls, sweep_freq>>
traceVars == <<trace, ifft_since_add>>
txVars == <<tx_processors>>
restVars == <<loopVars, callVars, sweepVars, traceVars, txVars>>

vars == <<pc, bufVars, rcVars, syVars, anVars, restVars>>

\* Value of a variable a specification does not use.
Unused == <<>>

\* The parts of the state a specification leaves aside.
BufIdle ==
    /\ size = Unused
    /\ buffer = Unused
    /\ prevTail = Unused
    /\ ticks = 0

RcIdle ==
    /\ build = Unused
    /\ rc_args = Unused
    /\ rc_result = Unused

AnIdle ==
    /\ source = Unused
    /\ analysis_bank = Unused
    /\ processors = Unused
    /\ rx_out = Unused
    /\ gathered = Unused

LoopIdle ==
    /\ slice_written = FALSE
    /\ error_count = 0
    /\ failed_since_ok = 0
    /\ sdr = Unused

CallIdle ==
    /\ call = Unused
    /\ outcome = Unused

SweepIdle ==
    /\ sweep = Unused
    /\ sweep_calls = 0
    /\ sweep_freq = Unused

TraceIdle ==
    /\ trace = <<>>
    /\ ifft_since_add = 0

TxIdle ==
    /\ tx_processors = Unused

RestIdle ==
    /\ LoopIdle
    /\ CallIdle
    /\ SweepIdle
    /\ TraceIdle
    /\ TxIdle

SyIdle ==
    /\ synth_input = Unused
    /\ synth_bank = Unused
    /\ synth_out = Unused
    /\ add_hist = Unused
    /\ added_since = FALSE
    /\ idle_process = "none"

----------------------------------------------------------------------------
(* Bounds of the model *)

\* InputBuffer: new and overlap range over 1 .. MaxBlock
MaxBlock == 2
\* number of ticks a run of a driver loop goes through
MaxTicks == 3
\* raised_cosine_weights: ifft_size ranges over 0 .. MaxIfft
MaxIfft == 10
\* raised_cosine_weights: passband_bins ranges over None, Some(0 .. MaxPassband)
MaxPassband == 5
\* raised_cosine_weights: transition_bins ranges over None, Some(0 .. MaxTransition)
MaxTransition == 4
\* SynthesisOutputProcessor: at most this many add() calls in a row
MaxAddsPerTick == 3
\* center_bin ranges over -MaxCenter .. MaxCenter
MaxCenter == 4

\* Transform sizes: those whose twiddle factors are powers of exp(2*pi*j/8).
FftSizes == {2, 4, 8}
\* ifft_size of the accumulator in the specification of the accumulator alone
SynthSizes == {2, 4}
\* center_bin of the sub-channels added in that specification
SynthCenters == {1, 2}
\* wideband bins at which the signal source of the receive loop puts its tone
SourceBins == {1, 2}

----------------------------------------------------------------------------
(* ComplexSample, exact *)

CZero == <<0, 0, 0, 0>>
COne  == <<1, 0, 0, 0>>
CI    == <<0, 0, 1, 0>>
CZeta == <<0, 1, 0, 0>>

CAdd(x, y) == <<x[1] + y[1], x[2] + y[2], x[3] + y[3], x[4] + y[4]>>

\* real (integer) s times x
CScale(s, x) == <<s * x[1], s * x[2], s * x[3], s * x[4]>>

\* x * z
CMulZeta(x) == <<0 - x[4], x[1], x[2], x[3]>>

\* x * z^k, k >= 0
RECURSIVE CRot(_, _)
CRot(x, k) == IF k % 8 = 0 THEN x ELSE CMulZeta(CRot(x, (k % 8) - 1))

\* vec![ComplexSample::ZERO; n]
ZeroVec(n) == [i \in 0 .. n - 1 |-> CZero]

IsZeroVec(v) == \A i \in DOMAIN v : v[i] = CZero

\* Values a signal source hands over in the InputBuffer specification.
SourceSamples == {COne, CI, CAdd(COne, CZeta)}

----------------------------------------------------------------------------
(* InputBuffer, fcfb/mod.rs:29-55 *)

\* InputBuffer::new
InputBufferNew(sz) == ZeroVec(sz.new + sz.overlap)

\* A prepare step that forgets to move the overlapping part.
CopyWithinForgotten(buf, src_start, src_end, dest) == buf

\* slice::copy_within(src_start .. src_end, dest): a memmove
CopyWithin(buf, src_start, src_end, dest) ==
    [i \in DOMAIN buf |->
        IF dest <= i /\ i < dest + (src_end - src_start)
        THEN buf[src_start + (i - dest)]
        ELSE buf[i]]

\* InputBuffer::prepare_for_new_samples: the buffer after the move
PrepareForNewSamples(sz, buf) == CopyWithin(buf, sz.new, sz.new + sz.overlap, 0)

\* the index range of the slice prepare_for_new_samples returns
WritableSlice(sz) == sz.overlap .. sz.new + sz.overlap - 1

\* the source writes `fresh` (a function over WritableSlice) into the slice
Overwrite(buf, fresh) ==
    [i \in DOMAIN buf |-> IF i \in DOMAIN fresh THEN fresh[i] ELSE buf[i]]

OverlapTail(sz, buf) == [i \in 0 .. sz.overlap - 1 |-> buf[sz.new + i]]

----------------------------------------------------------------------------
(* Specification of the InputBuffer alone: a tick is a prepare followed by  *)
(* the source filling the returned slice.                                   *)

BufInit ==
    /\ pc = "idle"
    /\ RcIdle
    /\ RestIdle
    /\ SyIdle
    /\ AnIdle
    /\ \E n \in 1 .. MaxBlock, o \in 1 .. MaxBlock : size = [new |-> n, overlap |-> o]
    /\ buffer = InputBufferNew(size)
    /\ prevTail = OverlapTail(size, buffer)
    /\ ticks = 0

BufPrepare ==
    /\ pc = "idle"
    /\ ticks < MaxTicks
    /\ buffer' = PrepareForNewSamples(size, buffer)
    /\ pc' = "prepared"
    /\ UNCHANGED <<size, prevTail, ticks, rcVars, restVars, syVars, anVars>>

BufFill ==
    /\ pc = "prepared"
    /\ \E fresh \in [WritableSlice(size) -> SourceSamples] :
          buffer' = Overwrite(buffer, fresh)
    /\ prevTail' = OverlapTail(size, buffer')
    /\ ticks' = ticks + 1
    /\ pc' = "idle"
    /\ UNCHANGED <<size, rcVars, restVars, syVars, anVars>>

BufNext == BufPrepare \/ BufFill

SpecBuf == BufInit /\ [][BufNext]_vars

\* C1: for an InputBuffer with new == overlap >= 1, the whole buffer is zero
\* before the first tick, and right after every prepare_for_new_samples the
\* positions [0, overlap) hold what [new, new+overlap) held at the end of the
\* previous tick.
C1_OverlapCarried ==
    (size.new = size.overlap /\ size.overlap >= 1) =>
        /\ (ticks = 0 /\ pc = "idle") => IsZeroVec(buffer)
        /\ pc = "prepared" =>
              \A i \in 0 .. size.overlap - 1 : buffer[i] = prevTail[i]

\* a second or later tick has just been prepared, carrying non-zero samples
C1_Witness ==
    /\ size.new = size.overlap
    /\ size.overlap = 2
    /\ pc = "prepared"
    /\ ticks >= 2
    /\ buffer[0] # CZero
    /\ buffer[0] # buffer[1]
    /\ buffer[0] = prevTail[0]
    /\ buffer[1] = prevTail[1]

----------------------------------------------------------------------------
(* Sample (f32) as <<sign, mantissa, exponent>>: (-1)^sign * mantissa *     *)
(* 2^exponent, mantissa = 0 or 2^23 <= mantissa < 2^24.  Only the finite,   *)
(* normal values the filter design meets are covered.                       *)

RECURSIVE Pow2(_)
Pow2(n) == IF n = 0 THEN 1 ELSE 2 * Pow2(n - 1)

F32Zero == <<0, 0, 0>>
F32One  == <<0, Pow2(23), -23>>
F32Half == <<0, Pow2(23), -24>>

\* shift m * 2^e left until the mantissa has 24 bits (exact)
RECURSIVE F32Normalize(_, _, _)
F32Normalize(s, m, e) ==
    IF m = 0 THEN F32Zero
    ELSE IF m < Pow2(23) THEN F32Normalize(s, 2 * m, e - 1)
    ELSE <<s, m, e>>

\* round m * 2^e, m < 2^28, to 24 bits, to nearest, ties to even
RECURSIVE F32Round(_, _, _)
F32Round(s, m, e) ==
    IF m < Pow2(24) THEN F32Normalize(s, m, e)
    ELSE LET p == CHOOSE q \in 1 .. 5 : m \div Pow2(q) < Pow2(24) /\ m \div Pow2(q) >= Pow2(23)
             q == m \div Pow2(p)
             r == m % Pow2(p)
             h == Pow2(p - 1)
             up == r > h \/ (r = h /\ q % 2 = 1)
         IN  IF up THEN F32Round(s, q + 1, e + p) ELSE <<s, q, e + p>>

\* x + y in f32: align with guard, round and sticky bit, add, round
F32Add(x, y) ==
    IF x[2] = 0 THEN y
    ELSE IF y[2] = 0 THEN x
    ELSE LET xBig == x[3] > y[3] \/ (x[3] = y[3] /\ x[2] >= y[2])
             hi == IF xBig THEN x ELSE y
             lo == IF xBig THEN y ELSE x
             d  == hi[3] - lo[3]
             a  == 8 * hi[2]
             b  == IF d >= 27 THEN 1
                   ELSE LET q == (8 * lo[2]) \div Pow2(d)
                            r == (8 * lo[2]) % Pow2(d)
                        IN  IF r # 0 /\ q % 2 = 0 THEN q + 1 ELSE q
             sum == IF hi[1] = lo[1] THEN a + b ELSE a - b
         IN  F32Round(hi[1], sum, hi[3] - 3)

\* 0.5 * x in f32: exact, the exponent drops by one
F32MulHalf(x) == IF x[2] = 0 THEN x ELSE <<x[1], x[2], x[3] - 1>>

\* (sample_consts::PI * k as Sample / d as Sample).cos() in f32, for the
\* arguments the design loop meets while d <= 16 (as large as the default
\* transition width makes it): the values cosf
\* returns for the f32 quotient (PI and the quotient are rounded to f32, so
\* the cosine of the f32 nearest to pi/2 is -4.371139e-8, not 0).
CosPiF32(k, d) ==
    CASE k = 1 /\ d = 2 -> <<1, 12303662, -48>>
    [] k = 1 /\ d = 3 -> <<0, 16777215, -25>>
    [] k = 2 /\ d = 3 -> <<1, 8388609, -24>>
    [] k = 1 /\ d = 4 -> <<0, 11863283, -24>>
    [] k = 2 /\ d = 4 -> <<1, 12303662, -48>>
    [] k = 3 /\ d = 4 -> <<1, 11863283, -24>>
    [] k = 1 /\ d = 5 -> <<0, 13573053, -24>>
    [] k = 2 /\ d = 5 -> <<0, 10368889, -25>>
    [] k = 3 /\ d = 5 -> <<1, 10368891, -25>>
    [] k = 4 /\ d = 5 -> <<1, 13573054, -24>>
    [] k = 1 /\ d = 6 -> <<0, 14529495, -24>>
    [] k = 2 /\ d = 6 -> <<0, 16777215, -25>>
    [] k = 3 /\ d = 6 -> <<1, 12303662, -48>>
    [] k = 4 /\ d = 6 -> <<1, 8388609, -24>>
    [] k = 5 /\ d = 6 -> <<1, 14529497, -24>>
    [] k = 1 /\ d = 7 -> <<0, 15115749, -24>>
    [] k = 2 /\ d = 7 -> <<0, 10460423, -24>>
    [] k = 3 /\ d = 7 -> <<0, 14933130, -26>>
    [] k = 4 /\ d = 7 -> <<1, 14933128, -26>>
    [] k = 5 /\ d = 7 -> <<1, 10460426, -24>>
    [] k = 6 /\ d = 7 -> <<1, 15115749, -24>>
    [] k = 1 /\ d = 8 -> <<0, 15500126, -24>>
    [] k = 2 /\ d = 8 -> <<0, 11863283, -24>>
    [] k = 3 /\ d = 8 -> <<0, 12840725, -25>>
    [] k = 4 /\ d = 8 -> <<1, 12303662, -48>>
    [] k = 5 /\ d = 8 -> <<1, 12840728, -25>>
    [] k = 6 /\ d = 8 -> <<1, 11863283, -24>>
    [] k = 7 /\ d = 8 -> <<1, 15500128, -24>>
    [] k = 1 /\ d = 9 -> <<0, 15765426, -24>>
    [] k = 2 /\ d = 9 -> <<0, 12852093, -24>>
    [] k = 3 /\ d = 9 -> <<0, 16777215, -25>>
    [] k = 4 /\ d = 9 -> <<0, 11653327, -26>>
    [] k = 5 /\ d = 9 -> <<1, 11653340, -26>>
    [] k = 6 /\ d = 9 -> <<1, 8388609, -24>>
    [] k = 7 /\ d = 9 -> <<1, 12852096, -24>>
    [] k = 8 /\ d = 9 -> <<1, 15765427, -24>>
    [] k = 1 /\ d = 10 -> <<0, 15956081, -24>>
    [] k = 2 /\ d = 10 -> <<0, 13573053, -24>>
    [] k = 3 /\ d = 10 -> <<0, 9861400, -24>>
    [] k = 4 /\ d = 10 -> <<0, 10368889, -25>>
    [] k = 5 /\ d = 10 -> <<1, 12303662, -48>>
    [] k = 6 /\ d = 10 -> <<1, 10368891, -25>>
    [] k = 7 /\ d = 10 -> <<1, 9861403, -24>>
    [] k = 8 /\ d = 10 -> <<1, 13573054, -24>>
    [] k = 9 /\ d = 10 -> <<1, 15956080, -24>>
    [] k = 1 /\ d = 11 -> <<0, 16097621, -24>>
    [] k = 2 /\ d = 11 -> <<0, 14113892, -24>>
    [] k = 3 /\ d = 11 -> <<0, 10986740, -24>>
    [] k = 4 /\ d = 11 -> <<0, 13939013, -25>>
    [] k = 5 /\ d = 11 -> <<0, 9550581, -26>>
    [] k = 6 /\ d = 11 -> <<1, 9550587, -26>>
    [] k = 7 /\ d = 11 -> <<1, 13939019, -25>>
    [] k = 8 /\ d = 11 -> <<1, 10986742, -24>>
    [] k = 9 /\ d = 11 -> <<1, 14113893, -24>>
    [] k = 10 /\ d = 11 -> <<1, 16097622, -24>>
    [] k = 1 /\ d = 12 -> <<0, 16205546, -24>>
    [] k = 2 /\ d = 12 -> <<0, 14529495, -24>>
    [] k = 3 /\ d = 12 -> <<0, 11863283, -24>>
    [] k = 4 /\ d = 12 -> <<0, 16777215, -25>>
    [] k = 5 /\ d = 12 -> <<0, 8684523, -25>>
    [] k = 6 /\ d = 12 -> <<1, 12303662, -48>>
    [] k = 7 /\ d = 12 -> <<1, 8684530, -25>>
    [] k = 8 /\ d = 12 -> <<1, 8388609, -24>>
    [] k = 9 /\ d = 12 -> <<1, 11863283, -24>>
    [] k = 10 /\ d = 12 -> <<1, 14529497, -24>>
    [] k = 11 /\ d = 12 -> <<1, 16205547, -24>>
    [] k = 1 /\ d = 13 -> <<0, 16289701, -24>>
    [] k = 2 /\ d = 13 -> <<0, 14855487, -24>>
    [] k = 3 /\ d = 13 -> <<0, 12557927, -24>>
    [] k = 4 /\ d = 13 -> <<0, 9530544, -24>>
    [] k = 5 /\ d = 13 -> <<0, 11898565, -25>>
    [] k = 6 /\ d = 13 -> <<0, 16178160, -27>>
    [] k = 7 /\ d = 13 -> <<1, 16178172, -27>>
    [] k = 8 /\ d = 13 -> <<1, 11898568, -25>>
    [] k = 9 /\ d = 13 -> <<1, 9530544, -24>>
    [] k = 10 /\ d = 13 -> <<1, 12557927, -24>>
    [] k = 11 /\ d = 13 -> <<1, 14855488, -24>>
    [] k = 12 /\ d = 13 -> <<1, 16289701, -24>>
    [] k = 1 /\ d = 14 -> <<0, 16356576, -24>>
    [] k = 2 /\ d = 14 -> <<0, 15115749, -24>>
    [] k = 3 /\ d = 14 -> <<0, 13116956, -24>>
    [] k = 4 /\ d = 14 -> <<0, 10460423, -24>>
    [] k = 5 /\ d = 14 -> <<0, 14558719, -25>>
    [] k = 6 /\ d = 14 -> <<0, 14933130, -26>>
    [] k = 7 /\ d = 14 -> <<1, 12303662, -48>>
    [] k = 8 /\ d = 14 -> <<1, 14933128, -26>>
    [] k = 9 /\ d = 14 -> <<1, 14558726, -25>>
    [] k = 10 /\ d = 14 -> <<1, 10460426, -24>>
    [] k = 11 /\ d = 14 -> <<1, 13116959, -24>>
    [] k = 12 /\ d = 14 -> <<1, 15115749, -24>>
    [] k = 13 /\ d = 14 -> <<1, 16356576, -24>>
    [] k = 1 /\ d = 15 -> <<0, 16410594, -24>>
    [] k = 2 /\ d = 15 -> <<0, 15326749, -24>>
    [] k = 3 /\ d = 15 -> <<0, 13573053, -24>>
    [] k = 4 /\ d = 15 -> <<0, 11226148, -24>>
    [] k = 5 /\ d = 15 -> <<0, 16777215, -25>>
    [] k = 6 /\ d = 15 -> <<0, 10368889, -25>>
    [] k = 7 /\ d = 15 -> <<0, 14029567, -27>>
    [] k = 8 /\ d = 15 -> <<1, 14029579, -27>>
    [] k = 9 /\ d = 15 -> <<1, 10368891, -25>>
    [] k = 10 /\ d = 15 -> <<1, 8388609, -24>>
    [] k = 11 /\ d = 15 -> <<1, 11226150, -24>>
    [] k = 12 /\ d = 15 -> <<1, 13573054, -24>>
    [] k = 13 /\ d = 15 -> <<1, 15326750, -24>>
    [] k = 14 /\ d = 15 -> <<1, 16410594, -24>>
    [] k = 1 /\ d = 16 -> <<0, 16454846, -24>>
    [] k = 2 /\ d = 16 -> <<0, 15500126, -24>>
    [] k = 3 /\ d = 16 -> <<0, 13949745, -24>>
    [] k = 4 /\ d = 16 -> <<0, 11863283, -24>>
    [] k = 5 /\ d = 16 -> <<0, 9320921, -24>>
    [] k = 6 /\ d = 16 -> <<0, 12840725, -25>>
    [] k = 7 /\ d = 16 -> <<0, 13092284, -26>>
    [] k = 8 /\ d = 16 -> <<1, 12303662, -48>>
    [] k = 9 /\ d = 16 -> <<1, 13092290, -26>>
    [] k = 10 /\ d = 16 -> <<1, 12840728, -25>>
    [] k = 11 /\ d = 16 -> <<1, 9320924, -24>>
    [] k = 12 /\ d = 16 -> <<1, 11863283, -24>>
    [] k = 13 /\ d = 16 -> <<1, 13949746, -24>>
    [] k = 14 /\ d = 16 -> <<1, 15500128, -24>>
    [] k = 15 /\ d = 16 -> <<1, 16454847, -24>>

----------------------------------------------------------------------------
(* raised_cosine_weights, fcfb/mod.rs:465-500 *)

\* Option<usize>: <<>> is None, <<v>> is Some(v)
None == <<>>
Some(v) == <<v>>
UnwrapOr(opt, default) == IF opt = None THEN default ELSE opt[1]

\* Stands in for 2^64, the modulus of usize: the integers of TLC are
\* 32 bits wide.  Every in-range value of the model is far below it, so a
\* wrapped difference exceeds each of them, as it does at width 64.
UsizeModulus == Pow2(30)

\* The result of an arithmetic panic.
Panic == -1

\* a - b on usize: the debug build panics on underflow, the release build wraps
USub(bld, a, b) ==
    IF a = Panic \/ b = Panic THEN Panic
    ELSE IF a >= b THEN a - b
    ELSE IF bld = "debug" THEN Panic
    ELSE a - b + UsizeModulus

\* A min() that returns its receiver.
MinTakingReceiver(a, b) == a

\* a.min(b)
Min(a, b) == IF a <= b THEN a ELSE b

\* let default_max_transition = 15;
default_max_transition == 15

\* A transition width that is always the default one.
TransitionBinsIgnoringArgument(bld, ifft_size, transition_bins) ==
    LET d == USub(bld, ifft_size \div 2, 1)
    IN  IF d = Panic THEN Panic ELSE Min(default_max_transition, d)

\* transition_bins.unwrap_or(default_max_transition.min(ifft_size/2 - 1));
\* the argument of unwrap_or is evaluated whether or not it is used
TransitionBins(bld, ifft_size, transition_bins) ==
    LET d == USub(bld, ifft_size \div 2, 1)
    IN  IF d = Panic THEN Panic
        ELSE UnwrapOr(transition_bins, Min(default_max_transition, d))

\* A passband half that leaves out the DC bin's "+ 1".
PassbandHalfWithoutDc(bld, ifft_size, passband_bins, transition_bins_) ==
    LET d == USub(bld, USub(bld, ifft_size, 2), 2 * transition_bins_)
    IN  IF d = Panic THEN Panic
        ELSE UnwrapOr(passband_bins, d) \div 2

\* passband_bins.unwrap_or(ifft_size - 2 - 2*transition_bins_) / 2 + 1
PassbandHalf(bld, ifft_size, passband_bins, transition_bins_) ==
    LET d == USub(bld, USub(bld, ifft_size, 2), 2 * transition_bins_)
    IN  IF d = Panic THEN Panic
        ELSE UnwrapOr(passband_bins, d) \div 2 + 1

\* A mirror index that is one off.
MirrorIndexOffByOne(ifft_size, i) == ifft_size - i - 1

\* the index ifft_size - i of the negative-frequency twin of bin i
MirrorIndex(ifft_size, i) == ifft_size - i

\* for i in 0 .. passband_half { weights[i] = 1.0; if i != 0 { weights[ifft_size - i] = 1.0 } }
RECURSIVE PassbandLoop(_, _, _, _)
PassbandLoop(weights, ifft_size, passband_half, i) ==
    IF i >= passband_half THEN weights
    ELSE LET w1 == [weights EXCEPT ![i] = F32One]
             w2 == IF i # 0 THEN [w1 EXCEPT ![MirrorIndex(ifft_size, i)] = F32One] ELSE w1
         IN  PassbandLoop(w2, ifft_size, passband_half, i + 1)

\* 0.5 + 0.5 * (PI * (i+1) / (transition_bins_+1)).cos()
TransitionValue(i, transition_bins_) ==
    F32Add(F32Half, F32MulHalf(CosPiF32(i + 1, transition_bins_ + 1)))

\* for i in 0 .. transition_bins_ { let j = passband_half + i; weights[j] = v;
\*                                  if j != 0 { weights[ifft_size - j] = v } }
RECURSIVE TransitionLoop(_, _, _, _, _)
TransitionLoop(weights, ifft_size, passband_half, transition_bins_, i) ==
    IF i >= transition_bins_ THEN weights
    ELSE LET v  == TransitionValue(i, transition_bins_)
             j  == passband_half + i
             w1 == [weights EXCEPT ![j] = v]
             w2 == IF j # 0 THEN [w1 EXCEPT ![MirrorIndex(ifft_size, j)] = v] ELSE w1
         IN  TransitionLoop(w2, ifft_size, passband_half, transition_bins_, i + 1)

Aborted == [abort |-> TRUE, weights |-> <<>>]

\* raised_cosine_weights(ifft_size, passband_bins, transition_bins)
RaisedCosineWeights(bld, ifft_size, passband_bins, transition_bins) ==
    IF ifft_size % 2 # 0 THEN Aborted                       \* assert!(ifft_size % 2 == 0)
    ELSE LET transition_bins_ == TransitionBins(bld, ifft_size, transition_bins)
             passband_half ==
                 IF transition_bins_ = Panic THEN Panic
                 ELSE PassbandHalf(bld, ifft_size, passband_bins, transition_bins_)
         IN  IF transition_bins_ = Panic \/ passband_half = Panic THEN Aborted
             \* assert!(passband_half + transition_bins_ <= ifft_size/2)
             ELSE IF ~(passband_half + transition_bins_ <= ifft_size \div 2) THEN Aborted
             ELSE LET w0 == [i \in 0 .. ifft_size - 1 |-> F32Zero]
                      w1 == PassbandLoop(w0, ifft_size, passband_half, 0)
                      w2 == TransitionLoop(w1, ifft_size, passband_half, transition_bins_, 0)
                  IN  [abort |-> FALSE, weights |-> w2]

----------------------------------------------------------------------------
(* Specification of the filter design: one call of raised_cosine_weights    *)
(* with arguments drawn from the bounded sets, in either build.             *)

OptionsUpTo(n) == {None} \cup {Some(v) : v \in 0 .. n}

RcInit ==
    /\ pc = "call"
    /\ BufIdle
    /\ SyIdle
    /\ AnIdle
    /\ RestIdle
    /\ build \in {"debug", "release"}
    /\ \E n \in 0 .. MaxIfft, p \in OptionsUpTo(MaxPassband), t \in OptionsUpTo(MaxTransition) :
          rc_args = [ifft_size |-> n, passband_bins |-> p, transition_bins |-> t]
    /\ rc_result = Unused

RcCall ==
    /\ pc = "call"
    /\ rc_result' = RaisedCosineWeights(build, rc_args.ifft_size,
                                        rc_args.passband_bins, rc_args.transition_bins)
    /\ pc' = "returned"
    /\ UNCHANGED <<build, rc_args, bufVars, syVars, anVars, restVars>>

RcNext == RcCall

SpecWeights == RcInit /\ [][RcNext]_vars

RcReturned == pc = "returned" /\ ~rc_result.abort

\* C4: whenever raised_cosine_weights returns (ifft_size even, passband_half +
\* transition_bins <= ifft_size/2), the vector has length ifft_size, weights[0] is
\* 1, weights[ifft_size/2] is 0 and weights[i] equals weights[ifft_size - i] for
\* every i in [1, ifft_size).
C4_WeightShape ==
    RcReturned =>
        LET n == rc_args.ifft_size
            w == rc_result.weights
        IN  /\ n % 2 = 0
            /\ DOMAIN w = 0 .. n - 1
            /\ w[0] = F32One
            /\ w[n \div 2] = F32Zero
            /\ \A i \in 1 .. n - 1 : w[i] = w[n - i]

\* a design with a passband of three bins and a transition band of two has returned
C4_Witness ==
    /\ RcReturned
    /\ rc_args = [ifft_size |-> 10, passband_bins |-> Some(4), transition_bins |-> Some(2)]
    /\ rc_result.weights[2] = F32One
    /\ rc_result.weights[3] # F32One
    /\ rc_result.weights[4] # F32Zero
    /\ rc_result.weights[4] # rc_result.weights[3]

IsE3Call ==
    /\ pc = "returned"
    /\ rc_args = [ifft_size |-> 8, passband_bins |-> None, transition_bins |-> Some(1)]

\* C8 as stated: raised_cosine_weights(8, None, Some(1)) returns weights[0] = 1,
\* weights[1] = weights[7] = 1, weights[2] = weights[6] = 0.5,
\* weights[3] = weights[5] = 0 and weights[4] = 0.
C8_AsStated ==
    IsE3Call =>
        /\ ~rc_result.abort
        /\ LET w == rc_result.weights
           IN  /\ w[0] = F32One
               /\ w[1] = F32One /\ w[7] = F32One
               /\ w[2] = F32Half /\ w[6] = F32Half
               /\ w[3] = F32Zero /\ w[5] = F32Zero
               /\ w[4] = F32Zero

\* the f32 just below 0.5: (2^24 - 1) * 2^-25 = 0.49999997
F32BelowHalf == <<0, Pow2(24) - 1, -25>>

\* C8 amended: raised_cosine_weights(8, None, Some(1)) has passband_half = 3 and
\* returns weights[0] = 1, weights[1] = weights[7] = 1, weights[2] = weights[6] = 1,
\* weights[3] = weights[5] = 0.49999997 (the f32 result of 0.5 + 0.5*cos(PI/2),
\* one ulp below 0.5) and weights[4] = 0.
C8_Amended ==
    IsE3Call =>
        /\ ~rc_result.abort
        /\ LET w == rc_result.weights
           IN  /\ w[0] = F32One
               /\ w[1] = F32One /\ w[7] = F32One
               /\ w[2] = F32One /\ w[6] = F32One
               /\ w[3] = F32BelowHalf /\ w[5] = F32BelowHalf
               /\ w[4] = F32Zero

\* the call of scenario E3 has returned a weight vector
C8_Witness ==
    /\ IsE3Call
    /\ ~rc_result.abort
    /\ rc_result.weights[3] = rc_result.weights[5]
    /\ rc_result.weights[3] # F32Zero

----------------------------------------------------------------------------
(* rustfft: Fft::process, in place, unnormalised.  Forward:                 *)
(* X[k] = sum_j x[j] * exp(-2*pi*i*j*k/n); inverse: the exponent positive.  *)

VecLen(v) == Cardinality(DOMAIN v)

\* the power of z = exp(2*pi*i/8) that multiplies x[j] in bin k
Twiddle(n, j, k, inverse) ==
    LET e == ((8 \div n) * j * k) % 8
    IN  IF inverse THEN e ELSE (8 - e) % 8

RECURSIVE DftSum(_, _, _, _)
DftSum(x, k, inverse, j) ==
    IF j < 0 THEN CZero
    ELSE CAdd(DftSum(x, k, inverse, j - 1), CRot(x[j], Twiddle(VecLen(x), j, k, inverse)))

\* FftPlanner::plan_fft_forward(n) .process(x)
FftForward(x) == [k \in DOMAIN x |-> DftSum(x, k, FALSE, VecLen(x) - 1)]

\* FftPlanner::plan_fft_inverse(n) .process(x)
FftInverse(x) == [k \in DOMAIN x |-> DftSum(x, k, TRUE, VecLen(x) - 1)]

\* a.rem_euclid(n), n > 0
RemEuclid(a, n) == a % n

\* &buffer[ifft_size/4 .. ifft_size/4 * 3]: the range and the samples in it
MiddleHalf(buf) ==
    LET ifft_size == VecLen(buf)
        from == ifft_size \div 4
        to   == (ifft_size \div 4) * 3
    IN  [from |-> from, to |-> to, samples |-> [i \in from .. to - 1 |-> buf[i]]]

\* Weight vectors that multiply spectra: integers, in units of 1.0.
UnitDc(n) == [i \in 0 .. n - 1 |-> IF i = 0 THEN 1 ELSE 0]
AllButNyquist(n) == [i \in 0 .. n - 1 |-> IF i = n \div 2 THEN 0 ELSE 1]
IntWeights(n) == {UnitDc(n), AllButNyquist(n)}
\* a weight vector whose entries all differ
RampWeights(n) == [i \in 0 .. n - 1 |-> i + 1]

\* A time-domain block: a unit impulse at sample p.
Impulse(n, p) == [i \in 0 .. n - 1 |-> IF i = p THEN COne ELSE CZero]

----------------------------------------------------------------------------
(* SynthesisInputProcessor, fcfb/mod.rs:381-453 *)

\* A processor whose deposit starts at the center bin.
SynthesisInputNewAtCenter(ifft_size, center_bin, weights) ==
    [weights |-> weights,
     result  |-> [offset     |-> RemEuclid(center_bin, ifft_size),
                  fft_result |-> ZeroVec(VecLen(weights))]]

\* SynthesisInputProcessor::new
SynthesisInputNew(ifft_size, center_bin, weights) ==
    LET fft_size == VecLen(weights)
    IN  [weights |-> weights,
         result  |-> [offset     |-> RemEuclid(center_bin - fft_size \div 2, ifft_size),
                      fft_result |-> ZeroVec(fft_size)]]

\* The halves left where the transform put them.
SwapHalvesForgotten(v) == v

\* for i in 0 .. fft_size_half { fft_result.swap(i, fft_size_half + i) }
SwapHalves(v) ==
    LET fft_size_half == VecLen(v) \div 2
    IN  [i \in DOMAIN v |->
            IF i < fft_size_half THEN v[fft_size_half + i]
            ELSE IF i < 2 * fft_size_half THEN v[i - fft_size_half]
            ELSE v[i]]

\* for (value, weight) in fft_result.iter_mut().zip(weights.iter()) { *value *= weight }
ApplyWeights(v, weights) ==
    [i \in DOMAIN v |-> IF i \in DOMAIN weights THEN CScale(weights[i], v[i]) ELSE v[i]]

\* SynthesisInputProcessor::process: the processor after the call; its result
\* field is what the call returns
SynthesisInputProcess(proc, input) ==
    [proc EXCEPT !.result.fft_result =
        SwapHalves(ApplyWeights(FftForward(input), proc.weights))]

----------------------------------------------------------------------------
(* SynthesisOutputProcessor, fcfb/mod.rs:241-342 *)

\* SynthesisOutputProcessor::new
SynthesisOutputNew(ifft_size) ==
    [ifft_size |-> ifft_size, buffer |-> ZeroVec(ifft_size), buffer_state |-> "CLEAR"]

\* A clear() that sets the state and leaves the buffer as it was.
SynthClearTagOnly(bank) == [bank EXCEPT !.buffer_state = "CLEAR"]

\* A clear() that zeroes the buffer and leaves the state as it was.
SynthClearKeepingState(bank) ==
    [bank EXCEPT !.buffer = [i \in DOMAIN bank.buffer |-> CZero]]

\* SynthesisOutputProcessor::clear
SynthClear(bank) ==
    [bank EXCEPT !.buffer = [i \in DOMAIN bank.buffer |-> CZero],
                 !.buffer_state = "CLEAR"]

\* An accumulation loop that stores each value instead of adding it.
RECURSIVE AddLoopStoring(_, _, _)
AddLoopStoring(buf, ir, index) ==
    IF index >= VecLen(ir.fft_result) THEN buf
    ELSE LET at == RemEuclid(ir.offset + index, VecLen(buf))
         IN  AddLoopStoring([buf EXCEPT ![at] = ir.fft_result[index]], ir, index + 1)

\* for (index, value) in fft_result.iter().enumerate()
\*     { buffer[(offset + index).rem_euclid(ifft_size)] += value }
RECURSIVE AddLoop(_, _, _)
AddLoop(buf, ir, index) ==
    IF index >= VecLen(ir.fft_result) THEN buf
    ELSE LET at == RemEuclid(ir.offset + index, VecLen(buf))
         IN  AddLoop([buf EXCEPT ![at] = CAdd(buf[at], ir.fft_result[index])], ir, index + 1)

\* An add() that accumulates onto whatever the buffer holds.
SynthAddWithoutClearing(bank, ir) ==
    [bank EXCEPT !.buffer = AddLoop(bank.buffer, ir, 0),
                 !.buffer_state = "INPUT"]

\* SynthesisOutputProcessor::add
SynthAdd(bank, ir) ==
    LET cleared == IF bank.buffer_state = "OUTPUT" THEN SynthClear(bank) ELSE bank
    IN  [cleared EXCEPT !.buffer = AddLoop(cleared.buffer, ir, 0),
                        !.buffer_state = "INPUT"]

\* A process() that transforms whatever the buffer holds.
IfftCallsEveryTime(bank) == <<"ifft">>

\* the calls of ifft_plan.process a process() call makes: one, in the INPUT arm
IfftCalls(bank) == IF bank.buffer_state = "INPUT" THEN <<"ifft">> ELSE <<>>

\* A process() that hands out the previous output again when nothing was added.
SynthProcessKeepingOutput(bank) ==
    CASE bank.buffer_state = "CLEAR"  -> bank
      [] bank.buffer_state = "INPUT"  ->
            [bank EXCEPT !.buffer = FftInverse(bank.buffer), !.buffer_state = "OUTPUT"]
      [] bank.buffer_state = "OUTPUT" -> bank

\* SynthesisOutputProcessor::process: the processor after the call
SynthProcess(bank) ==
    CASE bank.buffer_state = "CLEAR"  -> bank
      [] bank.buffer_state = "INPUT"  ->
            [bank EXCEPT !.buffer = FftInverse(bank.buffer), !.buffer_state = "OUTPUT"]
      [] bank.buffer_state = "OUTPUT" -> SynthClear(bank)

----------------------------------------------------------------------------
(* Specification of the accumulator: any sequence of add, process and clear *)
(* calls; each add() gets the result of a SynthesisInputProcessor that      *)
(* processed an impulse.                                                    *)

SynthIntermediates(ifft_size) ==
    { SynthesisInputProcess(SynthesisInputNew(ifft_size, x[2], AllButNyquist(x[1])),
                            Impulse(x[1], 1)).result :
        x \in { y \in FftSizes \X SynthCenters : y[1] <= ifft_size } }

SyInit ==
    /\ pc = "new"
    /\ BufIdle
    /\ RcIdle
    /\ RestIdle
    /\ AnIdle
    /\ synth_input = Unused
    /\ \E n \in SynthSizes : synth_bank = SynthesisOutputNew(n)
    /\ synth_out = Unused
    /\ add_hist = <<>>
    /\ added_since = FALSE
    /\ idle_process = "none"

SyAdd ==
    /\ Len(add_hist) < MaxAddsPerTick
    /\ \E ir \in SynthIntermediates(synth_bank.ifft_size) :
          /\ synth_bank' = SynthAdd(synth_bank, ir)
          /\ add_hist' = Append(add_hist, [before |-> synth_bank, ir |-> ir])
    /\ added_since' = TRUE
    /\ pc' = "added"
    /\ trace' = <<>>
    /\ ifft_since_add' = 0
    /\ UNCHANGED <<synth_input, synth_out, idle_process, bufVars, rcVars, anVars,
                   loopVars, callVars, sweepVars, txVars>>

SyProcess ==
    /\ synth_bank' = SynthProcess(synth_bank)
    /\ synth_out' = MiddleHalf(synth_bank'.buffer)
    /\ idle_process' = IF added_since THEN "none" ELSE synth_bank.buffer_state
    /\ added_since' = FALSE
    /\ add_hist' = <<>>
    /\ pc' = "processed"
    /\ trace' = IfftCalls(synth_bank)
    /\ ifft_since_add' = ifft_since_add + Len(trace')
    /\ UNCHANGED <<synth_input, bufVars, rcVars, anVars, loopVars, callVars, sweepVars, txVars>>

SyClear ==
    /\ synth_bank' = SynthClear(synth_bank)
    /\ add_hist' = <<>>
    /\ pc' = "cleared"
    /\ trace' = <<>>
    /\ UNCHANGED <<synth_input, synth_out, added_since, idle_process, ifft_since_add,
                   bufVars, rcVars, anVars, loopVars, callVars, sweepVars, txVars>>

SyNext == SyAdd \/ SyProcess \/ SyClear

SpecSynth == SyInit /\ [][SyNext]_vars

\* C3: a process() call with no add() since the previous process() call (or
\* since construction) returns a block whose samples are all zero.
C3_IdleProcessReturnsZeros ==
    (pc = "processed" /\ idle_process # "none") =>
        \A i \in DOMAIN synth_out.samples : synth_out.samples[i] = CZero

\* a process() found the previous tick's output in the buffer, nothing added since
C3_Witness ==
    /\ pc = "processed"
    /\ idle_process = "OUTPUT"
    /\ synth_bank.ifft_size = 4
    /\ VecLen(synth_out.samples) = 2

\* C5: add(a); add(b) and add(b); add(a) leave the same buffer and state, from
\* any starting state CLEAR, INPUT or OUTPUT (exact arithmetic).
C5_AddOrderIrrelevant ==
    Len(add_hist) >= 2 =>
        LET a == add_hist[Len(add_hist) - 1]
            b == add_hist[Len(add_hist)]
        IN  synth_bank = SynthAdd(SynthAdd(a.before, b.ir), a.ir)

\* two different spectra that share bins were added on top of an old output
C5_Witness ==
    /\ Len(add_hist) = 2
    /\ add_hist[1].before.buffer_state = "OUTPUT"
    /\ ~IsZeroVec(add_hist[1].before.buffer)
    /\ add_hist[1].ir # add_hist[2].ir
    /\ VecLen(add_hist[1].ir.fft_result) = 4
    /\ VecLen(add_hist[2].ir.fft_result) = 2
    /\ synth_bank.buffer_state = "INPUT"

----------------------------------------------------------------------------
(* AnalysisInputProcessor and AnalysisOutputProcessor, fcfb/mod.rs:62-223 *)

\* AnalysisInputProcessor::new
AnalysisInputNew(fft_size) == [fft_size |-> fft_size, fft_result |-> ZeroVec(fft_size)]

\* A block size whose overlap is longer than the new part.
AnalysisInputBlockSizeLongOverlap(bank) ==
    [new |-> bank.fft_size \div 4, overlap |-> bank.fft_size - bank.fft_size \div 4]

\* A block size without overlap.
AnalysisInputBlockSizeWhole(bank) == [new |-> bank.fft_size, overlap |-> 0]

\* AnalysisInputProcessor::input_block_size
AnalysisInputBlockSize(bank) ==
    [new |-> bank.fft_size \div 2, overlap |-> bank.fft_size \div 2]

\* AnalysisInputProcessor::process: copy the input, transform in place
AnalysisInputProcess(bank, input) == [bank EXCEPT !.fft_result = FftForward(input)]

\* AnalysisOutputProcessor::new
AnalysisOutputNew(center_bin, weights) ==
    [center_bin |-> center_bin, weights |-> weights, buffer |-> ZeroVec(VecLen(weights))]

\* A source index taken from the magnitude of the signed bin number.
BinIndexInOfMagnitude(center_bin, bin_number, fft_size) ==
    LET b == center_bin + bin_number
    IN  (IF b < 0 THEN 0 - b ELSE b) % fft_size

\* A source index one bin too high.
BinIndexInOneUp(center_bin, bin_number, fft_size) ==
    RemEuclid(center_bin + bin_number + 1, fft_size)

\* (center_bin + bin_number).rem_euclid(fft_size as isize) as usize
BinIndexIn(center_bin, bin_number, fft_size) ==
    RemEuclid(center_bin + bin_number, fft_size)

\* A destination index taken from the magnitude of the signed bin number.
BinIndexOutOfMagnitude(bin_number, ifft_size) ==
    (IF bin_number < 0 THEN 0 - bin_number ELSE bin_number) % ifft_size

\* bin_number.rem_euclid(ifft_size as isize) as usize
BinIndexOut(bin_number, ifft_size) == RemEuclid(bin_number, ifft_size)

\* A bin copied without its weight.
WeightedBinUnweighted(weights, bin_index_out, fft_result, bin_index_in) ==
    fft_result[bin_index_in]

\* weights[bin_index_out] * fft_result[bin_index_in]
WeightedBin(weights, bin_index_out, fft_result, bin_index_in) ==
    CScale(weights[bin_index_out], fft_result[bin_index_in])

\* for bin_number in -half_size .. half_size { buffer[bin_index_out] = ... }
RECURSIVE GatherLoop(_, _, _, _, _)
GatherLoop(buf, proc, fft_size, fft_result, bin_number) ==
    LET ifft_size == VecLen(buf)
        half_size == ifft_size \div 2
    IN  IF bin_number >= half_size THEN buf
        ELSE LET bin_index_in  == BinIndexIn(proc.center_bin, bin_number, fft_size)
                 bin_index_out == BinIndexOut(bin_number, ifft_size)
                 v == WeightedBin(proc.weights, bin_index_out, fft_result, bin_index_in)
             IN  GatherLoop([buf EXCEPT ![bin_index_out] = v],
                            proc, fft_size, fft_result, bin_number + 1)

\* the buffer indices the loop of AnalysisOutputProcessor::process writes, in order
GatherWrites(ifft_size) ==
    [j \in 1 .. 2 * (ifft_size \div 2) |-> BinIndexOut(j - 1 - ifft_size \div 2, ifft_size)]

\* the buffer of AnalysisOutputProcessor::process right before ifft_plan.process
Gathered(proc, fft_size, fft_result) ==
    GatherLoop(proc.buffer, proc, fft_size, fft_result, 0 - (VecLen(proc.buffer) \div 2))

\* AnalysisOutputProcessor::process: the processor after the call; the call
\* returns MiddleHalf of its buffer
AnalysisOutputProcess(proc, fft_size, fft_result) ==
    [proc EXCEPT !.buffer = FftInverse(Gathered(proc, fft_size, fft_result))]

----------------------------------------------------------------------------
(* Specification of the receive loop (main.rs): prepare the input buffer,   *)
(* receive a block of a steady tone, process it with two sub-channels.      *)

\* sample n of the tone at wideband bin `bin`: exp(2*pi*j*bin*n/fft_size)
ToneSample(fft_size, bin, n) == CRot(COne, ((8 \div fft_size) * bin * n) % 8)

\* the block a successful receive writes into the slice
Received(sz, fft_size, src) ==
    [i \in WritableSlice(sz) |-> ToneSample(fft_size, src.bin, src.n + (i - sz.overlap))]

\* the AnalysisOutputProcessors a run may be configured with
OutputProcessors(fft_size) ==
    { AnalysisOutputNew(x[1], x[2]) :
        x \in { y \in (0 - MaxCenter .. MaxCenter) \X UNION {IntWeights(n) : n \in FftSizes} :
                  VecLen(y[2]) <= fft_size } }

RxInit ==
    /\ pc = "prepare"
    /\ RcIdle
    /\ RestIdle
    /\ SyIdle
    /\ \E f \in FftSizes :
          /\ analysis_bank = AnalysisInputNew(f)
          /\ \E b \in SourceBins : source = [bin |-> b % f, n |-> 0]
          /\ \E p1 \in OutputProcessors(f), p2 \in OutputProcessors(f) : processors = <<p1, p2>>
    /\ size = AnalysisInputBlockSize(analysis_bank)
    /\ buffer = InputBufferNew(size)
    /\ prevTail = OverlapTail(size, buffer)
    /\ ticks = 0
    /\ rx_out = <<>>
    /\ gathered = <<>>

\* RxDsp::prepare_input_buffer
RxPrepare ==
    /\ pc = "prepare"
    /\ ticks < MaxTicks
    /\ buffer' = PrepareForNewSamples(size, buffer)
    /\ pc' = "receive"
    /\ UNCHANGED <<size, prevTail, ticks, rcVars, restVars, syVars, anVars>>

\* sdr.receive(..) returns Ok: the slice is filled
RxReceive ==
    /\ pc = "receive"
    /\ buffer' = Overwrite(buffer, Received(size, analysis_bank.fft_size, source))
    /\ source' = [source EXCEPT !.n = (source.n + size.new) % 8]
    /\ pc' = "process"
    /\ UNCHANGED <<size, prevTail, ticks, rcVars, restVars, syVars,
                   analysis_bank, processors, rx_out, gathered>>

\* RxDsp::process
RxProcess ==
    /\ pc = "process"
    /\ analysis_bank' = AnalysisInputProcess(analysis_bank, buffer)
    /\ LET ir == analysis_bank'.fft_result
           f  == analysis_bank.fft_size
       IN  /\ gathered' = [i \in DOMAIN processors |-> Gathered(processors[i], f, ir)]
           /\ processors' = [i \in DOMAIN processors |->
                                AnalysisOutputProcess(processors[i], f, ir)]
    /\ rx_out' = [i \in DOMAIN processors |-> MiddleHalf(processors'[i].buffer)]
    /\ prevTail' = OverlapTail(size, buffer)
    /\ ticks' = ticks + 1
    /\ pc' = "prepare"
    /\ UNCHANGED <<size, buffer, source, rcVars, restVars, syVars>>

RxNext == RxPrepare \/ RxReceive \/ RxProcess

SpecRx == RxInit /\ [][RxNext]_vars

\* RxDsp::process has run on a block that holds the tone throughout
RxSteady == pc = "prepare" /\ ticks >= 2

\* C6: two AnalysisOutputProcessors with the same weights whose center_bin
\* values (any signed integers) are congruent modulo fft_size read the same
\* wideband bins and produce element-equal outputs.
C6_CongruentCentersAgree ==
    (/\ ticks >= 1
     /\ processors[1].weights = processors[2].weights
     /\ (processors[1].center_bin - processors[2].center_bin) % analysis_bank.fft_size = 0)
    => /\ gathered[1] = gathered[2]
       /\ processors[1].buffer = processors[2].buffer
       /\ rx_out[1] = rx_out[2]

\* a negative and a positive center bin, eight bins apart, gave the same non-zero output
C6_Witness ==
    /\ ticks >= 1
    /\ analysis_bank.fft_size = 8
    /\ processors[1].center_bin = 0 - 4
    /\ processors[2].center_bin = 4
    /\ processors[1].weights = AllButNyquist(4)
    /\ processors[2].weights = AllButNyquist(4)
    /\ rx_out[1] = rx_out[2]
    /\ \E i \in DOMAIN rx_out[1].samples : rx_out[1].samples[i] # CZero

\* |x|^2 = NormP(x) + NormQ(x) * sqrt(2)
NormP(x) == x[1] * x[1] + x[2] * x[2] + x[3] * x[3] + x[4] * x[4]
NormQ(x) == x[1] * x[2] + x[2] * x[3] + x[3] * x[4] - x[1] * x[4]

\* q * sqrt(2) <= r
Sqrt2TimesLeq(q, r) ==
    IF q >= 0 THEN r >= 0 /\ 2 * q * q <= r * r
    ELSE r >= 0 \/ 2 * q * q >= r * r

\* 0.9 <= |x| <= 1.1
MagnitudeAboutOne(x) ==
    /\ Sqrt2TimesLeq(100 * NormQ(x), 121 - 100 * NormP(x))
    /\ Sqrt2TimesLeq(0 - 100 * NormQ(x), 100 * NormP(x) - 81)

\* scenarios E1 and E2: fft_size 8, the first sub-channel at center_bin 2 with
\* ifft_size 4 and weights [1,0,0,0], the tone at wideband bin `bin`, steady state
Scenario(bin) ==
    /\ RxSteady
    /\ analysis_bank.fft_size = 8
    /\ source.bin = bin
    /\ processors[1].center_bin = 2
    /\ processors[1].weights = UnitDc(4)

\* C9 as stated: in scenario E1 (tone at bin 2) the sub-channel returns samples
\* of magnitude about 1 whose phase does not advance from sample to sample.
C9_AsStated ==
    Scenario(2) =>
        \A i \in DOMAIN rx_out[1].samples :
            /\ MagnitudeAboutOne(rx_out[1].samples[i])
            /\ rx_out[1].samples[i] = rx_out[1].samples[rx_out[1].from]

\* C9 amended: in scenario E1 the sub-channel returns two samples per tick, each
\* equal to 8 + 0j: magnitude fft_size (neither transform is normalised and the
\* code does not scale), phase constant from sample to sample.
C9_ToneAtCenterIsDc ==
    Scenario(2) =>
        /\ DOMAIN rx_out[1].samples = 1 .. 2
        /\ \A i \in DOMAIN rx_out[1].samples :
              rx_out[1].samples[i] = CScale(analysis_bank.fft_size, COne)

\* scenario E1 has reached its steady state and the sub-channel returned samples
C9_Witness ==
    /\ Scenario(2)
    /\ ticks = 3
    /\ analysis_bank.fft_result[2] # CZero
    /\ rx_out[1].samples[1] # CZero

\* C10: in scenario E2 (tone at bin 1) the sub-channel returns samples of
\* magnitude 0: wideband bin 1 maps to a sub-channel bin whose weight is 0.
C10_ToneOffCenterIsRejected ==
    Scenario(1) =>
        /\ DOMAIN rx_out[1].samples = 1 .. 2
        /\ \A i \in DOMAIN rx_out[1].samples : rx_out[1].samples[i] = CZero

\* scenario E2 has reached its steady state with the tone in wideband bin 1
C10_Witness ==
    /\ Scenario(1)
    /\ ticks = 3
    /\ analysis_bank.fft_result[1] # CZero
    /\ analysis_bank.fft_result[2] = CZero
    /\ VecLen(rx_out[1].samples) = 2

----------------------------------------------------------------------------
(* Specification of the round trip at bin level: each tick a TxChannel      *)
(* processes a block into the accumulator (tx_dsp.rs), an                   *)
(* AnalysisOutputProcessor with the same size and center bin reads the      *)
(* accumulated wideband spectrum, and the accumulator is processed.         *)

\* SynthesisInputProcessor::input_block_size
SynthesisInputBlockSize(proc) ==
    LET fft_size == VecLen(proc.result.fft_result)
    IN  [new |-> fft_size \div 2, overlap |-> fft_size \div 2]

RoundWeights(n) == IntWeights(n) \cup {RampWeights(n)}

RoundInit ==
    /\ pc = "tx"
    /\ RcIdle
    /\ RestIdle
    /\ source = Unused
    /\ \E wide \in FftSizes, n \in FftSizes, c \in 0 - MaxCenter .. MaxCenter :
          /\ n <= wide
          /\ synth_bank = SynthesisOutputNew(wide)
          /\ analysis_bank = AnalysisInputNew(wide)
          /\ \E ws \in RoundWeights(n) : synth_input = SynthesisInputNew(wide, c, ws)
          /\ \E wa \in RoundWeights(n) : processors = <<AnalysisOutputNew(c, wa)>>
    /\ size = SynthesisInputBlockSize(synth_input)
    /\ buffer = InputBufferNew(size)
    /\ prevTail = OverlapTail(size, buffer)
    /\ ticks = 0
    /\ synth_out = Unused
    /\ add_hist = <<>>
    /\ added_since = FALSE
    /\ idle_process = "none"
    /\ rx_out = <<>>
    /\ gathered = <<>>

\* TxChannel::process: the channel processor fills the fresh part of the
\* buffer (here with a unit impulse), the block is transformed and added
RoundTx ==
    /\ pc = "tx"
    /\ ticks < MaxTicks
    /\ \E p \in WritableSlice(size) :
          buffer' = Overwrite(PrepareForNewSamples(size, buffer),
                              [i \in WritableSlice(size) |-> IF i = p THEN COne ELSE CZero])
    /\ synth_input' = SynthesisInputProcess(synth_input, buffer')
    /\ synth_bank' = SynthAdd(synth_bank, synth_input'.result)
    /\ add_hist' = Append(add_hist, [before |-> synth_bank, ir |-> synth_input'.result])
    /\ added_since' = TRUE
    /\ pc' = "rx"
    /\ UNCHANGED <<size, prevTail, ticks, synth_out, idle_process, rcVars, restVars, anVars>>

\* the accumulated wideband spectrum is handed, bin for bin, to the analysis side
RoundRx ==
    /\ pc = "rx"
    /\ analysis_bank' = [analysis_bank EXCEPT !.fft_result = synth_bank.buffer]
    /\ LET ir == analysis_bank'.fft_result
           f  == analysis_bank.fft_size
       IN  /\ gathered' = [i \in DOMAIN processors |-> Gathered(processors[i], f, ir)]
           /\ processors' = [i \in DOMAIN processors |->
                                AnalysisOutputProcess(processors[i], f, ir)]
    /\ rx_out' = [i \in DOMAIN processors |-> MiddleHalf(processors'[i].buffer)]
    /\ pc' = "synth"
    /\ UNCHANGED <<bufVars, rcVars, restVars, syVars, source>>

\* TxDsp::process, after the channels: synth_bank.process()
RoundSynth ==
    /\ pc = "synth"
    /\ synth_bank' = SynthProcess(synth_bank)
    /\ synth_out' = MiddleHalf(synth_bank'.buffer)
    /\ idle_process' = IF added_since THEN "none" ELSE synth_bank.buffer_state
    /\ added_since' = FALSE
    /\ add_hist' = <<>>
    /\ prevTail' = OverlapTail(size, buffer)
    /\ ticks' = ticks + 1
    /\ pc' = "tx"
    /\ UNCHANGED <<size, buffer, synth_input, rcVars, restVars, anVars>>

RoundNext == RoundTx \/ RoundRx \/ RoundSynth

SpecRound == RoundInit /\ [][RoundNext]_vars

\* the expected length and range of a returned block: ifft_size/2 samples,
\* buffer[ifft_size/4 .. 3*ifft_size/4]
IsMiddleHalfOf(slice, ifft_size) ==
    /\ slice.from = ifft_size \div 4
    /\ slice.to = (3 * ifft_size) \div 4
    /\ VecLen(slice.samples) = ifft_size \div 2

\* C2: for every positive even ifft_size, AnalysisOutputProcessor.process and
\* SynthesisOutputProcessor.process each return exactly ifft_size/2 samples per
\* call, namely buffer[ifft_size/4 .. 3*ifft_size/4]; exactly 1 sample per tick
\* when ifft_size == 2.
C2_HalfBlockReturned ==
    /\ (pc = "synth" \/ ticks >= 1) =>
          IsMiddleHalfOf(rx_out[1], VecLen(processors[1].weights))
    /\ ticks >= 1 => IsMiddleHalfOf(synth_out, synth_bank.ifft_size)

\* C7: with wideband size N, an even sub-channel size n <= N and a center bin c,
\* sub-channel FFT bin b, deposited by SynthesisInputProcessor.process and
\* SynthesisOutputProcessor.add, is the bin AnalysisOutputProcessor.process with
\* the same n and c fills sub-channel bin b from: the spectrum comes back bin
\* for bin, scaled only by the two weights.
C7_BinsReturnToTheirIndex ==
    pc = "synth" =>
        LET spectrum == FftForward(buffer)
            ws == synth_input.weights
            wa == processors[1].weights
        IN  \A b \in DOMAIN spectrum :
                gathered[1][b] = CScale(wa[b] * ws[b], spectrum[b])

\* the spec's case n = N with a wrapping (negative) center bin, every bin weighted
\* differently, and the case n < N
C7_Witness ==
    /\ pc = "synth"
    /\ ticks = 0
    /\ synth_bank.ifft_size = 8
    /\ VecLen(synth_input.weights) = 4
    /\ processors[1].center_bin = 0 - 1
    /\ synth_input.weights = RampWeights(4)
    /\ processors[1].weights = RampWeights(4)
    /\ \A b \in 0 .. 3 : gathered[1][b] # CZero
    /\ gathered[1][1] # gathered[1][3]

----------------------------------------------------------------------------
(* Specification of the receive loop with failing receives (main.rs:133-153) *)
(* Each action is one iteration of the loop.  The device may break: a       *)
(* working device may fail now and then, a broken one fails every time.     *)

\* if error_count >= 10 { break }
MaxErrors == 10

\* An Ok arm that leaves the count as it is.
OnReceiveOkKeeping(count) == count

\* Ok(_rx_result) => { error_count = 0; .. }
OnReceiveOk(count) == 0

\* Err(err) => { error_count += 1; .. }
OnReceiveErr(count) == count + 1

LoopInit ==
    /\ pc = "loop"
    /\ RcIdle
    /\ SyIdle
    /\ TraceIdle
    /\ TxIdle
    /\ \E f \in FftSizes :
          /\ analysis_bank = AnalysisInputNew(f)
          /\ \E b \in SourceBins : source = [bin |-> b % f, n |-> 0]
          /\ processors = <<AnalysisOutputNew(1, UnitDc(2))>>
    /\ size = AnalysisInputBlockSize(analysis_bank)
    /\ buffer = InputBufferNew(size)
    /\ prevTail = OverlapTail(size, buffer)
    /\ ticks = 0
    /\ rx_out = <<>>
    /\ gathered = <<>>
    /\ error_count = 0
    /\ failed_since_ok = 0
    /\ slice_written = FALSE
    /\ sdr = "working"
    /\ CallIdle
    /\ SweepIdle

\* one iteration whose receive returns Ok: prepare_input_buffer, receive,
\* error_count = 0, rx_dsp.process()
LoopReceiveOk ==
    /\ pc = "loop"
    /\ sdr = "working"
    /\ buffer' = Overwrite(PrepareForNewSamples(size, buffer),
                           Received(size, analysis_bank.fft_size, source))
    /\ source' = [source EXCEPT !.n = (source.n + size.new) % 8]
    /\ error_count' = OnReceiveOk(error_count)
    /\ failed_since_ok' = 0
    /\ slice_written' = FALSE
    /\ analysis_bank' = AnalysisInputProcess(analysis_bank, buffer')
    /\ LET ir == analysis_bank'.fft_result
           f  == analysis_bank.fft_size
       IN  /\ gathered' = [i \in DOMAIN processors |-> Gathered(processors[i], f, ir)]
           /\ processors' = [i \in DOMAIN processors |->
                                AnalysisOutputProcess(processors[i], f, ir)]
    /\ rx_out' = [i \in DOMAIN processors |-> MiddleHalf(processors'[i].buffer)]
    /\ prevTail' = OverlapTail(size, buffer')
    /\ ticks' = IF ticks < MaxTicks THEN ticks + 1 ELSE ticks
    /\ pc' = "loop"
    /\ UNCHANGED <<size, sdr, rcVars, syVars, callVars, sweepVars, traceVars, txVars>>

\* one iteration whose receive returns Err: the buffer was prepared, the slice
\* was written or not, the error is counted and the loop may break
LoopReceiveErr ==
    /\ pc = "loop"
    /\ \E written \in BOOLEAN :
          /\ buffer' = IF written
                       THEN Overwrite(PrepareForNewSamples(size, buffer),
                                      Received(size, analysis_bank.fft_size, source))
                       ELSE PrepareForNewSamples(size, buffer)
          /\ slice_written' = (slice_written \/ written)
    /\ error_count' = OnReceiveErr(error_count)
    /\ failed_since_ok' = failed_since_ok + 1
    /\ pc' = IF error_count' >= MaxErrors THEN "exited" ELSE "loop"
    /\ UNCHANGED <<size, prevTail, ticks, sdr, rcVars, syVars, anVars, callVars, sweepVars,
                   traceVars, txVars>>

\* the device stops delivering
SdrBreaks ==
    /\ pc = "loop"
    /\ sdr = "working"
    /\ sdr' = "broken"
    /\ UNCHANGED <<pc, bufVars, rcVars, syVars, anVars, error_count, failed_since_ok, slice_written,
                   callVars, sweepVars, traceVars, txVars>>

LoopNext == LoopReceiveOk \/ LoopReceiveErr \/ SdrBreaks

\* an iteration of the loop on a broken device
LoopWhileBroken == sdr = "broken" /\ LoopReceiveErr

\* The loop never pauses: an iteration that can run does run.  The weakest
\* form of this that the properties below need is stated: iterations on a broken device
\* are not postponed forever.
SpecLoop == LoopInit /\ [][LoopNext]_vars /\ WF_vars(LoopWhileBroken)

\* C11: error_count always equals the number of failed receives since the last
\* successful one; the loop has exited exactly when the 10th consecutive
\* failure has occurred, never with fewer; and once receive fails forever the
\* loop terminates.
C11_ConsecutiveErrorsEndTheLoop ==
    /\ [](/\ error_count = failed_since_ok
          /\ failed_since_ok <= MaxErrors
          /\ (pc = "exited") <=> (failed_since_ok = MaxErrors))
    /\ (sdr = "broken") ~> (pc = "exited")

\* the loop has exited after at least one successful receive reset the count
C11_Witness ==
    /\ pc = "exited"
    /\ ticks >= 1
    /\ sdr = "broken"
    /\ error_count = MaxErrors

----------------------------------------------------------------------------
(* Specification of single calls of the filter bank's interface: the        *)
(* constructors with any size, process() with blocks of any length, and     *)
(* the block accounting of input_block_size / make_input_buffer.            *)

MaxInputLen == 9

\* a block of `len` samples, none of them zero
Block(len) == [i \in 0 .. len - 1 |-> IF i = 1 THEN CI ELSE COne]

\* A copy that moves the elements it can before it finds the lengths differ.
CopyFromSliceThenCheck(dst, src) ==
    [abort |-> VecLen(src) # VecLen(dst),
     vec   |-> [i \in DOMAIN dst |-> IF i \in DOMAIN src THEN src[i] ELSE dst[i]]]

\* slice::copy_from_slice: panics when the lengths differ, before it copies
CopyFromSlice(dst, src) ==
    [abort |-> VecLen(src) # VecLen(dst),
     vec   |-> IF VecLen(src) # VecLen(dst) THEN dst ELSE src]

\* AnalysisInputProcessor::process with its panic: the first statement is
\* self.result.fft_result.copy_from_slice(input)
TryAnalysisInputProcess(bank, input) ==
    LET copied == CopyFromSlice(bank.fft_result, input)
    IN  IF copied.abort
        THEN [abort |-> TRUE, processor |-> [bank EXCEPT !.fft_result = copied.vec]]
        ELSE [abort |-> FALSE, processor |-> AnalysisInputProcess(bank, input)]

\* SynthesisInputProcessor::process with its panic, likewise
TrySynthesisInputProcess(proc, input) ==
    LET copied == CopyFromSlice(proc.result.fft_result, input)
    IN  IF copied.abort
        THEN [abort |-> TRUE, processor |-> [proc EXCEPT !.result.fft_result = copied.vec]]
        ELSE [abort |-> FALSE, processor |-> SynthesisInputProcess(proc, input)]

\* AnalysisOutputProcessor::process with its panic:
\* assert!(intermediate_result.fft_result.len() == self.input_parameters.fft_size)
TryAnalysisOutputProcess(proc, fft_size, fft_result) ==
    IF VecLen(fft_result) # fft_size
    THEN [abort |-> TRUE, processor |-> proc]
    ELSE [abort |-> FALSE, processor |-> AnalysisOutputProcess(proc, fft_size, fft_result)]

\* The constructors hold no assertion and no fallible step of their own (the
\* planner of rustfft plans a transform of any length, odd ones and 0 included):
\* each returns the processor it was asked for.
TryAnalysisInputNew(fft_size) ==
    [abort |-> FALSE, processor |-> AnalysisInputNew(fft_size)]

TrySynthesisOutputNew(ifft_size) ==
    [abort |-> FALSE, processor |-> SynthesisOutputNew(ifft_size)]

TryAnalysisOutputNew(fft_size, center_bin, weights) ==
    [abort |-> FALSE, processor |-> AnalysisOutputNew(center_bin, weights)]

\* make_input_buffer() followed by prepare_for_new_samples(): the block size,
\* the buffer and the index range of the writable slice
MakeInputBuffer(block_size) ==
    [size   |-> block_size,
     buffer |-> InputBufferNew(block_size),
     slice  |-> WritableSlice(block_size)]

\* processors that have already processed a block, so that their buffers hold data
UsedAnalysisInput(f) == AnalysisInputProcess(AnalysisInputNew(f), Impulse(f, 1))
UsedSynthesisInput(n) ==
    SynthesisInputProcess(SynthesisInputNew(8, 1, RampWeights(n)), Impulse(n, 1))
UsedAnalysisOutput(n, f) ==
    AnalysisOutputProcess(AnalysisOutputNew(1, RampWeights(n)), f, Block(f))

ConstructorCalls ==
    {[op |-> "AnalysisInputProcessor::new", fft_size |-> f] : f \in 0 .. MaxIfft}
    \cup {[op |-> "SynthesisOutputProcessor::new", ifft_size |-> f] : f \in 0 .. MaxIfft}
    \cup {[op |-> "AnalysisOutputProcessor::new", fft_size |-> f, weights |-> [i \in 0 .. n - 1 |-> 1]] :
             f \in 0 .. MaxIfft, n \in 0 .. MaxIfft}

ProcessCalls ==
    {[op |-> "AnalysisInputProcessor::process", processor |-> UsedAnalysisInput(f),
      input |-> Block(len)] : f \in FftSizes, len \in 0 .. MaxInputLen}
    \cup {[op |-> "SynthesisInputProcessor::process", processor |-> UsedSynthesisInput(n),
           input |-> Block(len)] : n \in FftSizes, len \in 0 .. MaxInputLen}
    \cup {[op |-> "AnalysisOutputProcessor::process", processor |-> UsedAnalysisOutput(x[1], x[2]),
           fft_size |-> x[2], fft_result |-> Block(len)] :
             x \in {y \in FftSizes \X FftSizes : y[1] <= y[2]}, len \in 0 .. MaxInputLen}

BlockSizeCalls ==
    {[op |-> "AnalysisInputProcessor::make_input_buffer", processor |-> AnalysisInputNew(f)] :
        f \in 0 .. MaxIfft}
    \cup {[op |-> "SynthesisInputProcessor::make_input_buffer",
           processor |-> SynthesisInputNew(MaxIfft, 1, [i \in 0 .. n - 1 |-> 1])] :
        n \in 0 .. MaxIfft}

CallInit ==
    /\ pc = "call"
    /\ BufIdle
    /\ RcIdle
    /\ SyIdle
    /\ TraceIdle
    /\ TxIdle
    /\ AnIdle
    /\ LoopIdle
    /\ SweepIdle
    /\ call \in ConstructorCalls \cup ProcessCalls \cup BlockSizeCalls
    /\ outcome = Unused

CallAnalysisInputNew ==
    /\ pc = "call"
    /\ call.op = "AnalysisInputProcessor::new"
    /\ outcome' = TryAnalysisInputNew(call.fft_size)
    /\ pc' = "returned"
    /\ UNCHANGED <<call, bufVars, rcVars, syVars, anVars, loopVars, sweepVars, traceVars, txVars>>

CallSynthesisOutputNew ==
    /\ pc = "call"
    /\ call.op = "SynthesisOutputProcessor::new"
    /\ outcome' = TrySynthesisOutputNew(call.ifft_size)
    /\ pc' = "returned"
    /\ UNCHANGED <<call, bufVars, rcVars, syVars, anVars, loopVars, sweepVars, traceVars, txVars>>

CallAnalysisOutputNew ==
    /\ pc = "call"
    /\ call.op = "AnalysisOutputProcessor::new"
    /\ outcome' = TryAnalysisOutputNew(call.fft_size, 0, call.weights)
    /\ pc' = "returned"
    /\ UNCHANGED <<call, bufVars, rcVars, syVars, anVars, loopVars, sweepVars, traceVars, txVars>>

CallAnalysisInputProcess ==
    /\ pc = "call"
    /\ call.op = "AnalysisInputProcessor::process"
    /\ outcome' = TryAnalysisInputProcess(call.processor, call.input)
    /\ pc' = "returned"
    /\ UNCHANGED <<call, bufVars, rcVars, syVars, anVars, loopVars, sweepVars, traceVars, txVars>>

CallSynthesisInputProcess ==
    /\ pc = "call"
    /\ call.op = "SynthesisInputProcessor::process"
    /\ outcome' = TrySynthesisInputProcess(call.processor, call.input)
    /\ pc' = "returned"
    /\ UNCHANGED <<call, bufVars, rcVars, syVars, anVars, loopVars, sweepVars, traceVars, txVars>>

CallAnalysisOutputProcess ==
    /\ pc = "call"
    /\ call.op = "AnalysisOutputProcessor::process"
    /\ outcome' = TryAnalysisOutputProcess(call.processor, call.fft_size, call.fft_result)
    /\ pc' = "returned"
    /\ UNCHANGED <<call, bufVars, rcVars, syVars, anVars, loopVars, sweepVars, traceVars, txVars>>

CallAnalysisMakeInputBuffer ==
    /\ pc = "call"
    /\ call.op = "AnalysisInputProcessor::make_input_buffer"
    /\ outcome' = MakeInputBuffer(AnalysisInputBlockSize(call.processor))
    /\ pc' = "returned"
    /\ UNCHANGED <<call, bufVars, rcVars, syVars, anVars, loopVars, sweepVars, traceVars, txVars>>

CallSynthesisMakeInputBuffer ==
    /\ pc = "call"
    /\ call.op = "SynthesisInputProcessor::make_input_buffer"
    /\ outcome' = MakeInputBuffer(SynthesisInputBlockSize(call.processor))
    /\ pc' = "returned"
    /\ UNCHANGED <<call, bufVars, rcVars, syVars, anVars, loopVars, sweepVars, traceVars, txVars>>

CallNext ==
    \/ CallAnalysisInputNew
    \/ CallSynthesisOutputNew
    \/ CallAnalysisOutputNew
    \/ CallAnalysisInputProcess
    \/ CallSynthesisInputProcess
    \/ CallAnalysisOutputProcess
    \/ CallAnalysisMakeInputBuffer
    \/ CallSynthesisMakeInputBuffer

SpecCalls == CallInit /\ [][CallNext]_vars

Returned(op) == pc = "returned" /\ call.op = op

\* C12: AnalysisInputProcessor::new and SynthesisOutputProcessor::new called
\* with an odd or zero size, and AnalysisOutputProcessor::new called with a
\* weight vector longer than fft_size, abort instead of returning a processor.
C12_BadSizesAbortConstruction ==
    /\ (Returned("AnalysisInputProcessor::new")
        /\ (call.fft_size % 2 = 1 \/ call.fft_size = 0)) => outcome.abort
    /\ (Returned("SynthesisOutputProcessor::new")
        /\ (call.ifft_size % 2 = 1 \/ call.ifft_size = 0)) => outcome.abort
    /\ (Returned("AnalysisOutputProcessor::new")
        /\ VecLen(call.weights) > call.fft_size) => outcome.abort
\* C13: AnalysisInputProcessor.process and SynthesisInputProcessor.process
\* called with input.len() != fft_size, and AnalysisOutputProcessor.process
\* called with a spectrum whose length differs from fft_size, abort before any
\* element of the processor's buffer has been modified.
C13_MismatchAbortsUntouched ==
    /\ (Returned("AnalysisInputProcessor::process")
        /\ VecLen(call.input) # call.processor.fft_size)
       => (outcome.abort /\ outcome.processor = call.processor)
    /\ (Returned("SynthesisInputProcessor::process")
        /\ VecLen(call.input) # VecLen(call.processor.weights))
       => (outcome.abort /\ outcome.processor = call.processor)
    /\ (Returned("AnalysisOutputProcessor::process")
        /\ VecLen(call.fft_result) # call.fft_size)
       => (outcome.abort /\ outcome.processor = call.processor)

\* a block one sample short, handed to a processor whose buffer holds data
C13_Witness ==
    /\ Returned("SynthesisInputProcessor::process")
    /\ VecLen(call.input) = 3
    /\ VecLen(call.processor.weights) = 4
    /\ \A i \in 0 .. 3 : call.processor.result.fft_result[i] # CZero
    /\ outcome.abort
\* the block accounting of one processor of size fft_size
BlockAccounts(fft_size, fft_result) ==
    /\ outcome.size.new = fft_size \div 2
    /\ outcome.size.overlap = fft_size \div 2
    /\ outcome.size.new + outcome.size.overlap = fft_size
    /\ ~CopyFromSlice(fft_result, outcome.buffer).abort
    /\ Cardinality(outcome.slice) = fft_size \div 2

\* C15: for every positive even fft_size, input_block_size() of
\* AnalysisInputProcessor and of SynthesisInputProcessor reports
\* new == overlap == fft_size/2 with new + overlap == fft_size, so the buffer
\* from make_input_buffer() has exactly the length process() requires and the
\* slice returned by prepare_for_new_samples has length fft_size/2.
C15_BlockAccounting ==
    /\ (Returned("AnalysisInputProcessor::make_input_buffer")
        /\ call.processor.fft_size > 0 /\ call.processor.fft_size % 2 = 0)
       => BlockAccounts(call.processor.fft_size, call.processor.fft_result)
    /\ (Returned("SynthesisInputProcessor::make_input_buffer")
        /\ VecLen(call.processor.weights) > 0 /\ VecLen(call.processor.weights) % 2 = 0)
       => BlockAccounts(VecLen(call.processor.weights), call.processor.result.fft_result)

\* a processor of either kind, at a size that is not a power of two
C15_Witness ==
    /\ pc = "returned"
    /\ \/ /\ call.op = "AnalysisInputProcessor::make_input_buffer"
          /\ call.processor.fft_size = 6
       \/ /\ call.op = "SynthesisInputProcessor::make_input_buffer"
          /\ VecLen(call.processor.weights) = 6
    /\ VecLen(outcome.buffer) = 6
    /\ outcome.slice = 3 .. 5
\* C14: raised_cosine_weights aborts, returning no weight vector, whenever
\* ifft_size is odd or passband_half + transition_bins > ifft_size/2, where
\* passband_half = passband_bins/2 + 1 for an explicit passband_bins and
\* transition_bins is the explicit value or min(15, ifft_size/2 - 1).
C14_BadArgumentsAbort ==
    pc = "returned" =>
        LET n  == rc_args.ifft_size
            tb == UnwrapOr(rc_args.transition_bins, Min(default_max_transition, n \div 2 - 1))
            tooWide == /\ rc_args.passband_bins # None
                       /\ rc_args.passband_bins[1] \div 2 + 1 + tb > n \div 2
        IN  (n % 2 = 1 \/ tooWide) => (rc_result.abort /\ rc_result.weights = <<>>)

\* an even size whose explicit passband and transition band do not fit, the
\* sum exceeding ifft_size/2 by one
C14_Witness ==
    /\ pc = "returned"
    /\ rc_args = [ifft_size |-> 8, passband_bins |-> Some(0), transition_bins |-> Some(4)]
    /\ rc_result.abort

----------------------------------------------------------------------------
(* SweepGenerator, fcfb/sweep.rs.  Angles and frequencies are kept exactly,  *)
(* as fractions of pi: <<num, den>> stands for num/den * pi.  The f32 of    *)
(* the source rounds each of them to within its precision.                  *)

MaxSweepLength == 8
MaxSweepCalls == 20

\* a + k * b for fractions a, b and an integer k
FracAddTimes(a, k, b) == <<a[1] * b[2] + k * b[1] * a[2], a[2] * b[2]>>

FracEq(a, b) == a[1] * b[2] = b[1] * a[2]

\* (a + b).rem_euclid(2 * pi), in fractions of pi
FracAddMod2(a, b) ==
    LET num == a[1] * b[2] + b[1] * a[2]
        den == a[2] * b[2]
    IN  <<num % (2 * den), den>>

\* lowest terms, so that equal angles are equal values
RECURSIVE Gcd(_, _)
Gcd(a, b) == IF b = 0 THEN a ELSE Gcd(b, a % b)

Reduced(a) ==
    LET g == Gcd(IF a[1] < 0 THEN 0 - a[1] ELSE a[1], a[2])
    IN  <<a[1] \div g, a[2] \div g>>

\* SweepGenerator::new
SweepGeneratorNew(sweep_length) ==
    [sweep_length      |-> sweep_length,
     sample_counter    |-> 0,
     phase             |-> <<0, 1>>,
     initial_frequency |-> <<0 - 1, 1>>,
     frequency_step    |-> <<2, sweep_length>>]

\* A wrap that comes one sample late.
WrapCounterLate(counter, sweep_length) == IF counter > sweep_length THEN 0 ELSE counter

\* if self.sample_counter >= self.sweep_length { self.sample_counter = 0; }
WrapCounter(counter, sweep_length) == IF counter >= sweep_length THEN 0 ELSE counter

\* let freq = self.initial_frequency + self.sample_counter as Sample * self.frequency_step
SweepFrequency(gen) ==
    Reduced(FracAddTimes(gen.initial_frequency, gen.sample_counter, gen.frequency_step))

\* SweepGenerator::sample: the generator after the call
SweepSample(gen) ==
    [gen EXCEPT !.phase = Reduced(FracAddMod2(gen.phase, SweepFrequency(gen))),
                !.sample_counter = WrapCounter(gen.sample_counter + 1, gen.sweep_length)]

SweepInit ==
    /\ pc = "sweep"
    /\ BufIdle
    /\ RcIdle
    /\ SyIdle
    /\ TraceIdle
    /\ TxIdle
    /\ AnIdle
    /\ LoopIdle
    /\ CallIdle
    /\ \E len \in 1 .. MaxSweepLength : sweep = SweepGeneratorNew(len)
    /\ sweep_calls = 0
    /\ sweep_freq = Unused

SweepCall ==
    /\ pc = "sweep"
    /\ sweep_calls < MaxSweepCalls
    /\ sweep_freq' = SweepFrequency(sweep)
    /\ sweep' = SweepSample(sweep)
    /\ sweep_calls' = sweep_calls + 1
    /\ UNCHANGED <<pc, bufVars, rcVars, syVars, anVars, loopVars, callVars, traceVars, txVars>>

SweepNext == SweepCall

SpecSweep == SweepInit /\ [][SweepNext]_vars

\* C16: for sweep_length L >= 1, after n calls of sample() sample_counter
\* equals n mod L (always < L), and the frequency added to the phase by the
\* n-th call (0-based) is -pi + 2*pi*(n mod L)/L; for L = 4 the four
\* frequencies are -pi, -pi/2, 0, pi/2.
C16_SweepCounterAndFrequency ==
    LET len == sweep.sweep_length
        n   == sweep_calls - 1
    IN  /\ sweep.sample_counter = sweep_calls % len
        /\ sweep.sample_counter < len
        /\ sweep_calls >= 1 =>
              /\ FracEq(sweep_freq, <<2 * (n % len) - len, len>>)
              /\ len = 4 =>
                    sweep_freq = CASE n % 4 = 0 -> <<0 - 1, 1>>
                                   [] n % 4 = 1 -> <<0 - 1, 2>>
                                   [] n % 4 = 2 -> <<0, 1>>
                                   [] n % 4 = 3 -> <<1, 2>>

\* the last sample of the second sweep of length 4: the counter has wrapped
\* twice and the frequency is pi/2
C16_Witness ==
    /\ sweep.sweep_length = 4
    /\ sweep_calls = 8
    /\ sweep.sample_counter = 0
    /\ sweep_freq = <<1, 2>>

----------------------------------------------------------------------------
(* Specification of the sizing of a channel: fft_size of the wideband bank  *)
(* from the bin spacing (main.rs:69), then                                  *)
(* AnalysisOutputParameters::for_frequency.  Rates, frequencies and the bin *)
(* spacing are whole numbers of one unit; the f64 quotients of the source   *)
(* are computed exactly before they are rounded.                            *)

MaxRate == 12
MaxSpacing == 3
MaxOffset == 1

\* f64::round of num/den (den > 0): to the nearest integer, halves away from zero
RoundDiv(num, den) ==
    IF num >= 0 THEN (2 * num + den) \div (2 * den)
    ELSE 0 - ((2 * (0 - num) + den) \div (2 * den))

\* fft_size: (sdr_rx_sample_rate / bin_spacing).round() as usize
WidebandFftSize(sample_rate, bin_spacing) == RoundDiv(sample_rate, bin_spacing)

\* A channel sized for half its sample rate.
ChannelFftSizeOfHalfRate(output_sample_rate, fft_size, input_sample_rate) ==
    RoundDiv(output_sample_rate * fft_size, 2 * input_sample_rate)

\* (output_sample_rate * fft_size as f64 / input_sample_rate).round() as usize
ChannelFftSize(output_sample_rate, fft_size, input_sample_rate) ==
    RoundDiv(output_sample_rate * fft_size, input_sample_rate)

\* AnalysisOutputParameters::for_frequency; frequency_offset is
\* output_center_frequency - input_center_frequency.  rem_euclid panics on a
\* zero fft_size, before the weights are designed.
ForFrequency(bld, analysis_in_params, output_sample_rate, frequency_offset) ==
    LET fft_size  == analysis_in_params.fft_size
        rate      == analysis_in_params.input_sample_rate
        ifft_size == ChannelFftSize(output_sample_rate, fft_size, rate)
    IN  IF fft_size = 0
        THEN [abort |-> TRUE, ifft_size |-> ifft_size, center_bin |-> 0, weights |-> <<>>]
        ELSE LET designed == RaisedCosineWeights(bld, ifft_size, None, None)
             IN  [abort      |-> designed.abort,
                  ifft_size  |-> ifft_size,
                  center_bin |-> RemEuclid(RoundDiv(frequency_offset * fft_size, rate), fft_size),
                  weights    |-> designed.weights]

DesignInit ==
    /\ pc = "call"
    /\ BufIdle
    /\ SyIdle
    /\ TraceIdle
    /\ TxIdle
    /\ AnIdle
    /\ LoopIdle
    /\ SweepIdle
    /\ build \in {"debug", "release"}
    /\ rc_args = Unused
    /\ rc_result = Unused
    /\ \E s \in 1 .. MaxRate, r \in 1 .. MaxRate, b \in 1 .. MaxSpacing,
          d \in 0 - MaxOffset .. MaxOffset :
          call = [op |-> "for_frequency", sdr_sample_rate |-> s, channel_sample_rate |-> r,
                  bin_spacing |-> b, frequency_offset |-> d]
    /\ outcome = Unused

\* RxDsp::new followed by RxChannel::new for one channel
DesignCall ==
    /\ pc = "call"
    /\ LET analysis_params == [fft_size |-> WidebandFftSize(call.sdr_sample_rate, call.bin_spacing),
                               input_sample_rate |-> call.sdr_sample_rate]
           parameters == ForFrequency(build, analysis_params,
                                      call.channel_sample_rate, call.frequency_offset)
       IN  outcome' = [fft_size |-> analysis_params.fft_size, parameters |-> parameters]
    /\ pc' = "returned"
    /\ UNCHANGED <<call, bufVars, rcVars, syVars, anVars, loopVars, sweepVars, traceVars, txVars>>

DesignNext == DesignCall

SpecDesign == DesignInit /\ [][DesignNext]_vars

\* both rates are positive integer multiples of 2 * bin_spacing and the
\* channel's does not exceed the device's
RatesFitSpacing ==
    /\ call.sdr_sample_rate % (2 * call.bin_spacing) = 0
    /\ call.channel_sample_rate % (2 * call.bin_spacing) = 0
    /\ call.channel_sample_rate <= call.sdr_sample_rate

\* C17: when the SDR sample rate and a channel's sample rate are both positive
\* integer multiples of 2 * bin_spacing and the channel rate does not exceed
\* the SDR rate, fft_size = round(sample_rate / bin_spacing) is even and
\* positive, the channel size computed by for_frequency is even, positive and
\* <= fft_size, and raised_cosine_weights does not abort.
C17_RatesGiveEvenSizes ==
    (pc = "returned" /\ RatesFitSpacing) =>
        /\ outcome.fft_size > 0
        /\ outcome.fft_size % 2 = 0
        /\ outcome.parameters.ifft_size > 0
        /\ outcome.parameters.ifft_size % 2 = 0
        /\ outcome.parameters.ifft_size <= outcome.fft_size
        /\ ~outcome.parameters.abort
        /\ VecLen(outcome.parameters.weights) = outcome.parameters.ifft_size

\* a channel of a third of the band, with a spacing that is not 1 and a
\* negative frequency offset
C17_Witness ==
    /\ pc = "returned"
    /\ RatesFitSpacing
    /\ call.bin_spacing = 2
    /\ call.sdr_sample_rate = 12
    /\ call.channel_sample_rate = 4
    /\ call.frequency_offset = 0 - 1
    /\ outcome.fft_size = 6
    /\ outcome.parameters.ifft_size = 2
    /\ outcome.parameters.center_bin = 5

----------------------------------------------------------------------------
(* The accumulator's state machine (SpecSynth)                              *)

\* the table of the buffer states: the state each call leaves, from each state
StateAfter(op, state) ==
    CASE op = "added"     -> "INPUT"
      [] op = "cleared"   -> "CLEAR"
      [] op = "processed" -> (CASE state = "CLEAR"  -> "CLEAR"
                                [] state = "INPUT"  -> "OUTPUT"
                                [] state = "OUTPUT" -> "CLEAR")

\* C18: from its initial state CLEAR, add() from any state ends in INPUT
\* (clearing the buffer first when the state was OUTPUT); process() takes CLEAR
\* to CLEAR, INPUT to OUTPUT and OUTPUT to CLEAR; clear() from any state ends
\* in CLEAR; no other transition is reachable.
C18_TransitionTable ==
    /\ synth_bank.buffer_state = "CLEAR"
    /\ [][/\ synth_bank'.buffer_state = StateAfter(pc', synth_bank.buffer_state)
          /\ (pc' = "added" /\ synth_bank.buffer_state = "OUTPUT") =>
                synth_bank'.buffer =
                    AddLoop(ZeroVec(synth_bank.ifft_size), add_hist'[Len(add_hist')].ir, 0)]_vars

\* add() has found the previous output in the buffer and ended in INPUT
C18_Witness ==
    /\ pc = "added"
    /\ Len(add_hist) = 1
    /\ add_hist[1].before.buffer_state = "OUTPUT"
    /\ ~IsZeroVec(add_hist[1].before.buffer)
    /\ synth_bank.buffer_state = "INPUT"

\* what the spectrum `ir` deposits at bin k of a buffer of ifft_size bins: the
\* sum of its elements i with (offset + i) mod ifft_size = k
RECURSIVE DepositAt(_, _, _, _)
DepositAt(ir, ifft_size, k, i) ==
    IF i >= VecLen(ir.fft_result) THEN CZero
    ELSE CAdd(IF (ir.offset + i) % ifft_size = k THEN ir.fft_result[i] ELSE CZero,
              DepositAt(ir, ifft_size, k, i + 1))

\* the sum of the deposits of the first n add() calls of the history at bin k
RECURSIVE DepositsAt(_, _, _, _)
DepositsAt(hist, ifft_size, k, n) ==
    IF n = 0 THEN CZero
    ELSE CAdd(DepositsAt(hist, ifft_size, k, n - 1), DepositAt(hist[n].ir, ifft_size, k, 0))

\* C19: in every reachable state INPUT, the buffer equals the sum of exactly
\* the spectra add()ed since the most recent process(), clear() or
\* construction, each deposited at (offset + i) mod ifft_size; nothing of the
\* previous tick's output or of earlier ticks' inputs remains in it.
C19_InputHoldsOnlyThisTick ==
    synth_bank.buffer_state = "INPUT" =>
        \A k \in DOMAIN synth_bank.buffer :
            synth_bank.buffer[k] =
                DepositsAt(add_hist, synth_bank.ifft_size, k, Len(add_hist))

\* two spectra added on top of a buffer that held the previous tick's output
C19_Witness ==
    /\ synth_bank.buffer_state = "INPUT"
    /\ Len(add_hist) = 2
    /\ add_hist[1].before.buffer_state = "OUTPUT"
    /\ ~IsZeroVec(add_hist[1].before.buffer)
    /\ add_hist[1].ir # add_hist[2].ir
    /\ ~IsZeroVec(synth_bank.buffer)

\* C20: in every state reachable by any sequence of add, process and clear
\* calls, the state tag CLEAR implies that every element of the buffer is zero.
C20_ClearMeansZero ==
    synth_bank.buffer_state = "CLEAR" => IsZeroVec(synth_bank.buffer)

\* clear() called on a buffer that held this tick's inputs, after an earlier
\* tick had produced output
C20_Witness ==
    /\ pc = "cleared"
    /\ added_since
    /\ DOMAIN synth_out # {}
    /\ \E i \in DOMAIN synth_out.samples : synth_out.samples[i] # CZero
    /\ synth_bank.buffer_state = "CLEAR"

\* C21: SynthesisOutputProcessor.process runs the inverse transform if and
\* only if it is called in state INPUT, i.e. at least one add() happened since
\* the previous process()/clear(); two process() calls with no add() between
\* them never both run the transform, and add() and clear() never run it.
C21_OneInverseTransformPerTick ==
    /\ [](/\ (synth_bank.buffer_state = "INPUT") <=> (add_hist # <<>>)
          /\ ifft_since_add <= 1
          /\ pc \in {"added", "cleared"} => trace = <<>>)
    /\ [][pc' = "processed" =>
            ((trace' = <<"ifft">>) <=> (synth_bank.buffer_state = "INPUT"))]_vars

\* a second process() in a row: the first ran the transform, this one did not
C21_Witness ==
    /\ pc = "processed"
    /\ trace = <<>>
    /\ ifft_since_add = 1
    /\ idle_process = "OUTPUT"

\* C22: for even ifft_size <= fft_size and H = ifft_size/2, immediately before
\* the inverse transform in AnalysisOutputProcessor.process,
\* buffer[k mod ifft_size] == weights[k mod ifft_size] * intermediate[(center_bin + k) mod fft_size]
\* for every signed k in [-H, H); every buffer index in [0, ifft_size) is
\* written exactly once per call, so the result depends only on the current
\* intermediate spectrum and not on earlier ticks.
C22_AnalysisBinMapping ==
    (pc = "prepare" /\ ticks >= 1) =>
        \A p \in DOMAIN processors :
            LET proc      == processors[p]
                ifft_size == VecLen(proc.weights)
                fft_size  == analysis_bank.fft_size
                H         == ifft_size \div 2
                writes    == GatherWrites(ifft_size)
            IN  /\ \A k \in 0 - H .. H - 1 :
                       gathered[p][k % ifft_size] =
                           CScale(proc.weights[k % ifft_size],
                                  analysis_bank.fft_result[(proc.center_bin + k) % fft_size])
                /\ \A d \in 0 .. ifft_size - 1 :
                       Cardinality({j \in DOMAIN writes : writes[j] = d}) = 1
                /\ gathered[p] = Gathered([proc EXCEPT !.buffer = ZeroVec(ifft_size)],
                                          fft_size, analysis_bank.fft_result)

\* a negative center bin and two differently filled bins on either side of
\* bin 0 (the first block, half of it still zero, has a broad spectrum)
C22_Witness ==
    /\ pc = "prepare"
    /\ ticks = 1
    /\ analysis_bank.fft_size = 8
    /\ processors[1].center_bin = 0 - 3
    /\ processors[1].weights = AllButNyquist(4)
    /\ gathered[1][1] # CZero
    /\ gathered[1][3] # CZero
    /\ gathered[1][1] # gathered[1][3]

----------------------------------------------------------------------------
(* Specification of the receive loop with the sub-channels processed in any *)
(* order: RxDsp::process hands the same shared reference to every           *)
(* RxChannel; here the order of the channels is chosen freely and the       *)
(* spectrum is threaded through the calls.                                  *)

\* A process() that applies its weights to the wideband spectrum in place.
SpectrumWeightedInPlace(proc, fft_size, fft_result) ==
    LET ifft_size == VecLen(proc.weights)
        H == ifft_size \div 2
        readers(b) == {k \in 0 - H .. H - 1 : BinIndexIn(proc.center_bin, k, fft_size) = b}
    IN  [b \in DOMAIN fft_result |->
            IF readers(b) = {} THEN fft_result[b]
            ELSE CScale(proc.weights[BinIndexOut(CHOOSE k \in readers(b) : TRUE, ifft_size)],
                        fft_result[b])]

\* the spectrum after AnalysisOutputProcessor::process: it arrives as
\* &AnalysisIntermediateResult and is only read
SpectrumAfterProcess(proc, fft_size, fft_result) == fft_result

\* for processor in self.processors.iter_mut() { processor.process(ir) }, the
\* processors taken in the given order; `seen` records what each call was handed
RECURSIVE ProcessEach(_, _, _, _, _)
ProcessEach(procs, order, fft_size, fft_result, seen) ==
    IF order = <<>>
    THEN [processors |-> procs, fft_result |-> fft_result, seen |-> seen]
    ELSE LET i == Head(order)
         IN  ProcessEach([procs EXCEPT ![i] = AnalysisOutputProcess(procs[i], fft_size, fft_result)],
                         Tail(order), fft_size,
                         SpectrumAfterProcess(procs[i], fft_size, fft_result),
                         Append(seen, [processor |-> i, fft_result |-> fft_result,
                                       weights |-> procs[i].weights]))

ProcessingOrders == {<<1, 2>>, <<2, 1>>}

\* RxDsp::process, the channels in any order
RxProcessAnyOrder ==
    /\ pc = "process"
    /\ \E order \in ProcessingOrders,
          ir \in {AnalysisInputProcess(analysis_bank, buffer).fft_result} :
          \E done \in {ProcessEach(processors, order, analysis_bank.fft_size, ir, <<>>)} :
              /\ analysis_bank' = [analysis_bank EXCEPT !.fft_result = done.fft_result]
              /\ processors' = done.processors
              /\ trace' = done.seen
              /\ gathered' = [i \in DOMAIN processors |->
                                 Gathered(processors[i], analysis_bank.fft_size,
                                          done.seen[CHOOSE j \in DOMAIN done.seen :
                                                        done.seen[j].processor = i].fft_result)]
    /\ rx_out' = [i \in DOMAIN processors |-> MiddleHalf(processors'[i].buffer)]
    /\ prevTail' = OverlapTail(size, buffer)
    /\ ticks' = ticks + 1
    /\ pc' = "prepare"
    /\ UNCHANGED <<size, buffer, source, rcVars, syVars, loopVars, callVars, sweepVars,
                   ifft_since_add, txVars>>

OrderNext == RxPrepare \/ RxReceive \/ RxProcessAnyOrder

SpecOrder == RxInit /\ [][OrderNext]_vars

\* C24: AnalysisOutputProcessor.process leaves the shared intermediate
\* spectrum and the shared weight vector unchanged, so within one tick every
\* output processor observes the same spectrum and each processor's result is
\* the same for every execution order of the processors in RxDsp.process.
C24_SpectrumAndWeightsUntouched ==
    (pc = "prepare" /\ ticks >= 1) =>
        LET fresh == FftForward(buffer)
        IN  /\ analysis_bank.fft_result = fresh
            /\ \A j \in DOMAIN trace :
                  /\ trace[j].fft_result = fresh
                  /\ trace[j].weights = processors[trace[j].processor].weights
            /\ \A i \in DOMAIN processors :
                  processors[i].buffer =
                      AnalysisOutputProcess(processors[i], analysis_bank.fft_size, fresh).buffer

\* the second channel was processed first; both read the same wideband bins
\* with weights that a change of the spectrum would show through
C24_Witness ==
    /\ pc = "prepare"
    /\ ticks >= 1
    /\ Len(trace) = 2
    /\ trace[1].processor = 2
    /\ analysis_bank.fft_size = 4
    /\ processors[1].center_bin = processors[2].center_bin
    /\ processors[1].weights = AllButNyquist(4)
    /\ processors[2].weights = UnitDc(2)
    /\ \E i \in DOMAIN rx_out[1].samples : rx_out[1].samples[i] # CZero

----------------------------------------------------------------------------
(* Specification of the transmit side (tx_dsp.rs): a TxDsp with some        *)
(* TxChannels; each action is one call of TxDsp::process.  `trace` records  *)
(* the calls the tick makes.                                                *)

MaxChannels == 2

\* TxChannel::new, with the parameters that new_with_frequency designs given
TxChannelNew(ifft_size, center_bin, weights) ==
    LET made        == SynthesisInputNew(ifft_size, center_bin, weights)
        block_size  == SynthesisInputBlockSize(made)
    IN  [synth_input |-> made, size |-> block_size, buffer |-> InputBufferNew(block_size)]

\* TxChannel::process for channel i: the channel's processor fills the slice
\* with `fresh`, the block is transformed, the result is added to the bank
TxChannelProcess(channel, i, bank, fresh) ==
    LET filled      == Overwrite(PrepareForNewSamples(channel.size, channel.buffer), fresh)
        processed   == SynthesisInputProcess(channel.synth_input, filled)
    IN  [channel |-> [channel EXCEPT !.buffer = filled, !.synth_input = processed],
         bank    |-> SynthAdd(bank, processed.result),
         events  |-> <<[op |-> "processor.process", channel |-> i],
                       [op |-> "synth_input.process", channel |-> i],
                       [op |-> "synth.add", channel |-> i]>>]

\* the samples channel i's processor writes in a tick: an impulse whose
\* place depends on the tick's choice p
FreshSamples(channel, i, p) ==
    [j \in WritableSlice(channel.size) |->
        IF j = channel.size.overlap + ((p + i) % channel.size.new) THEN COne ELSE CZero]

\* for processor in self.processors.iter_mut() { processor.process(&mut self.synth_bank) }
RECURSIVE TxChannelsLoop(_, _, _, _, _)
TxChannelsLoop(channels, bank, i, p, events) ==
    IF i > Len(channels) THEN [channels |-> channels, bank |-> bank, events |-> events]
    ELSE LET done == TxChannelProcess(channels[i], i, bank, FreshSamples(channels[i], i, p))
         IN  TxChannelsLoop([channels EXCEPT ![i] = done.channel], done.bank, i + 1, p,
                            events \o done.events)

\* A tick that processes the accumulator before the channels have added.
TxDspProcessBankFirst(channels, bank, p) ==
    LET looped == TxChannelsLoop(channels, SynthProcess(bank), 1, p,
                                 <<[op |-> "synth_bank.process", channel |-> 0]>>)
    IN  [channels |-> looped.channels, bank |-> looped.bank, events |-> looped.events]

\* TxDsp::process: the channels, then self.synth_bank.process()
TxDspProcess(channels, bank, p) ==
    LET looped == TxChannelsLoop(channels, bank, 1, p, <<>>)
    IN  [channels |-> looped.channels,
         bank     |-> SynthProcess(looped.bank),
         events   |-> Append(looped.events, [op |-> "synth_bank.process", channel |-> 0])]

TxChannels(ifft_size) ==
    { TxChannelNew(ifft_size, x[2], RampWeights(x[1])) :
        x \in { y \in FftSizes \X SynthCenters : y[1] <= ifft_size } }

TxInit ==
    /\ pc = "tick"
    /\ BufIdle
    /\ RcIdle
    /\ AnIdle
    /\ LoopIdle
    /\ CallIdle
    /\ SweepIdle
    /\ synth_input = Unused
    /\ \E n \in FftSizes :
          /\ synth_bank = SynthesisOutputNew(n)
          /\ \E count \in 0 .. MaxChannels : tx_processors \in [1 .. count -> TxChannels(n)]
    /\ synth_out = Unused
    /\ add_hist = <<>>
    /\ added_since = FALSE
    /\ idle_process = "none"
    /\ trace = <<>>
    /\ ifft_since_add = 0

TxTick ==
    /\ pc = "tick"
    /\ ticks < MaxTicks
    /\ \E p \in 0 .. 1 :
       \E done \in {TxDspProcess(tx_processors, synth_bank, p)} :
          /\ tx_processors' = done.channels
          /\ synth_bank' = done.bank
          /\ trace' = done.events
          /\ synth_out' = MiddleHalf(done.bank.buffer)
    /\ ticks' = ticks + 1
    /\ UNCHANGED <<pc, size, buffer, prevTail, rcVars, anVars, loopVars, callVars, sweepVars,
                   synth_input, add_hist, added_since, idle_process, ifft_since_add>>

TxNext == TxTick

SpecTx == TxInit /\ [][TxNext]_vars

\* the calls of one tick with `count` channels, in order
RECURSIVE TickCalls(_)
TickCalls(count) ==
    IF count = 0 THEN <<>>
    ELSE TickCalls(count - 1) \o <<[op |-> "processor.process", channel |-> count],
                                   [op |-> "synth_input.process", channel |-> count],
                                   [op |-> "synth.add", channel |-> count]>>

\* C25: in one TxDsp.process tick every TxChannel performs, in this order and
\* exactly once, fill of the fresh region of its overlap buffer,
\* SynthesisInputProcessor.process, and add() into the shared accumulator; all
\* add() calls of the tick precede the single SynthesisOutputProcessor.process
\* call, so between ticks the accumulator state is never INPUT.
C25_TickOrder ==
    /\ synth_bank.buffer_state # "INPUT"
    /\ ticks >= 1 =>
          trace = Append(TickCalls(Len(tx_processors)),
                         [op |-> "synth_bank.process", channel |-> 0])

\* a second tick of two channels of different sizes that left output behind
C25_Witness ==
    /\ ticks = 2
    /\ Len(tx_processors) = 2
    /\ synth_bank.ifft_size = 8
    /\ VecLen(tx_processors[1].synth_input.weights) = 4
    /\ VecLen(tx_processors[2].synth_input.weights) = 8
    /\ Len(trace) = 7
    /\ synth_bank.buffer_state = "OUTPUT"
    /\ \E i \in DOMAIN synth_out.samples : synth_out.samples[i] # CZero

----------------------------------------------------------------------------
(* Specification of the default filter design: one call of                  *)
(* raised_cosine_weights(ifft_size, None, None), in either build, with      *)
(* sizes on both sides of the one where the default transition width stops  *)
(* growing.                                                                 *)

MaxDefaultIfft == 40

DefaultsInit ==
    /\ pc = "call"
    /\ BufIdle
    /\ SyIdle
    /\ AnIdle
    /\ RestIdle
    /\ build \in {"debug", "release"}
    /\ \E n \in 0 .. MaxDefaultIfft :
          rc_args = [ifft_size |-> n, passband_bins |-> None, transition_bins |-> None]
    /\ rc_result = Unused

SpecDefaults == DefaultsInit /\ [][RcNext]_vars

\* C26: for every even ifft_size >= 2, raised_cosine_weights(ifft_size, None,
\* None) does not abort and no unsigned subtraction underflows: the defaults
\* are transition_bins = min(15, ifft_size/2 - 1) and passband_half =
\* ifft_size/2 - transition_bins, so their sum is ifft_size/2 exactly; for
\* ifft_size = 2 the result is the vector [1, 0].
C26_DefaultDesign ==
    (pc = "returned" /\ rc_args.ifft_size >= 2 /\ rc_args.ifft_size % 2 = 0) =>
        LET n    == rc_args.ifft_size
            half == n \div 2
            t    == TransitionBins(build, n, None)
            ph   == PassbandHalf(build, n, None, t)
        IN  /\ ~rc_result.abort
            /\ half >= 1 /\ USub(build, half, 1) = half - 1
            /\ t = (IF half - 1 < 15 THEN half - 1 ELSE 15)
            /\ n - 2 >= 2 * t
            /\ USub(build, USub(build, n, 2), 2 * t) = n - 2 - 2 * t
            /\ ph = half - t
            /\ ph + t = half
            /\ \A i \in 0 .. n - 1 :
                  (i < ph \/ i > n - ph) => rc_result.weights[i] = F32One
            /\ rc_result.weights[half] = F32Zero
            /\ n = 2 => rc_result.weights = [i \in 0 .. 1 |-> IF i = 0 THEN F32One ELSE F32Zero]

\* the smallest size, and a size whose default transition width is the cap
C26_Witness ==
    /\ pc = "returned"
    /\ build = "debug"
    /\ rc_args.ifft_size = 34
    /\ ~rc_result.abort
    /\ TransitionBins(build, 34, None) = 15
    /\ rc_result.weights[1] = F32One
    /\ rc_result.weights[2] # F32One
    /\ rc_result.weights[2] # F32Zero

----------------------------------------------------------------------------
(* Specification of the host loop call by call (main.rs:133-153): each      *)
(* action is one call the loop makes, prepare_input_buffer, sdr.receive     *)
(* with either result, or rx_dsp.process.  `trace` holds the calls made     *)
(* since the last run of rx_dsp.process returned.                           *)

Call(op, processor, fft_result) ==
    [op |-> op, processor |-> processor, fft_result |-> fft_result]

\* A match that runs the processing after either result.
AfterReceiveProcessing(result, count) ==
    IF result = "Ok" \/ count < MaxErrors THEN "process" ELSE "exited"

\* match sdr.receive(..) { Ok(_) => { .. rx_dsp.process() }, Err(_) => { .. break .. } }:
\* where the loop goes after the receive, `count` being the updated error_count
AfterReceive(result, count) ==
    IF result = "Ok" THEN "process"
    ELSE IF count >= MaxErrors THEN "exited" ELSE "prepare"

HostInit ==
    /\ pc = "prepare"
    /\ RcIdle
    /\ SyIdle
    /\ CallIdle
    /\ SweepIdle
    /\ TxIdle
    /\ \E f \in FftSizes :
          /\ analysis_bank = AnalysisInputNew(f)
          /\ \E b \in SourceBins : source = [bin |-> b % f, n |-> 0]
          /\ \E c \in SourceBins :
                processors = <<AnalysisOutputNew(c, UnitDc(2)), AnalysisOutputNew(0, AllButNyquist(f))>>
    /\ size = AnalysisInputBlockSize(analysis_bank)
    /\ buffer = InputBufferNew(size)
    /\ prevTail = OverlapTail(size, buffer)
    /\ ticks = 0
    /\ rx_out = <<>>
    /\ gathered = <<>>
    /\ error_count = 0
    /\ failed_since_ok = 0
    /\ slice_written = FALSE
    /\ sdr = "working"
    /\ trace = <<>>
    /\ ifft_since_add = 0

\* rx_dsp.prepare_input_buffer(), the argument of sdr.receive
HostPrepare ==
    /\ pc = "prepare"
    /\ buffer' = PrepareForNewSamples(size, buffer)
    /\ trace' = IF trace # <<>> /\ trace[Len(trace)].op = "processor.process"
                THEN <<Call("prepare_input_buffer", 0, <<>>)>>
                ELSE Append(trace, Call("prepare_input_buffer", 0, <<>>))
    /\ pc' = "receive"
    /\ UNCHANGED <<size, prevTail, ticks, rcVars, syVars, anVars, loopVars, callVars, sweepVars,
                   ifft_since_add, txVars>>

\* sdr.receive(..) returns Ok: the slice is filled; error_count = 0
HostReceiveOk ==
    /\ pc = "receive"
    /\ buffer' = Overwrite(buffer, Received(size, analysis_bank.fft_size, source))
    /\ source' = [source EXCEPT !.n = (source.n + size.new) % 8]
    /\ error_count' = OnReceiveOk(error_count)
    /\ failed_since_ok' = 0
    /\ trace' = Append(trace, Call("receive Ok", 0, <<>>))
    /\ pc' = AfterReceive("Ok", error_count')
    /\ UNCHANGED <<size, prevTail, ticks, rcVars, syVars, analysis_bank, processors, rx_out,
                   gathered, slice_written, sdr, callVars, sweepVars, ifft_since_add, txVars>>

\* sdr.receive(..) returns Err, having written into the slice or not:
\* error_count += 1; if error_count >= 10 { break }
HostReceiveErr ==
    /\ pc = "receive"
    /\ \E written \in BOOLEAN :
          /\ buffer' = IF written
                       THEN Overwrite(buffer, Received(size, analysis_bank.fft_size, source))
                       ELSE buffer
          /\ source' = IF written THEN [source EXCEPT !.n = (source.n + size.new) % 8]
                       ELSE source
          /\ slice_written' = (slice_written \/ written)
    /\ error_count' = OnReceiveErr(error_count)
    /\ failed_since_ok' = failed_since_ok + 1
    /\ trace' = Append(trace, Call("receive Err", 0, <<>>))
    /\ pc' = AfterReceive("Err", error_count')
    /\ UNCHANGED <<size, prevTail, ticks, rcVars, syVars, analysis_bank, processors, rx_out,
                   gathered, sdr, callVars, sweepVars, ifft_since_add, txVars>>

\* rx_dsp.process(): the forward transform, then every RxChannel in turn
HostProcess ==
    /\ pc = "process"
    /\ \E ir \in {AnalysisInputProcess(analysis_bank, buffer).fft_result} :
       \E done \in {ProcessEach(processors, [i \in DOMAIN processors |-> i],
                                analysis_bank.fft_size, ir, <<>>)} :
          /\ analysis_bank' = [analysis_bank EXCEPT !.fft_result = done.fft_result]
          /\ processors' = done.processors
          /\ trace' = trace \o [j \in DOMAIN done.seen |->
                                   Call("processor.process", done.seen[j].processor,
                                        done.seen[j].fft_result)]
          /\ gathered' = [i \in DOMAIN processors |->
                             Gathered(processors[i], analysis_bank.fft_size, ir)]
    /\ rx_out' = [i \in DOMAIN processors |-> MiddleHalf(processors'[i].buffer)]
    /\ prevTail' = OverlapTail(size, buffer)
    /\ slice_written' = FALSE
    /\ ticks' = IF ticks < MaxTicks THEN ticks + 1 ELSE ticks
    /\ pc' = "prepare"
    /\ UNCHANGED <<size, buffer, source, rcVars, syVars, error_count, failed_since_ok, sdr,
                   callVars, sweepVars, ifft_since_add, txVars>>

HostNext == HostPrepare \/ HostReceiveOk \/ HostReceiveErr \/ HostProcess

SpecHost == HostInit /\ [][HostNext]_vars

\* the calls of an iteration whose receive succeeded, given the spectrum
IterationOk(fft_result) ==
    <<Call("prepare_input_buffer", 0, <<>>), Call("receive Ok", 0, <<>>)>>
        \o [i \in DOMAIN processors |-> Call("processor.process", i, fft_result)]

\* the calls of an iteration whose receive failed
IterationErr == <<Call("prepare_input_buffer", 0, <<>>), Call("receive Err", 0, <<>>)>>

\* the calls of k iterations whose receives failed
RECURSIVE FailedIterations(_)
FailedIterations(k) == IF k = 0 THEN <<>> ELSE FailedIterations(k - 1) \o IterationErr

\* the failed iterations at the start of the trace
FailuresBefore(rest) == FailedIterations((Len(trace) - rest) \div 2)

\* C27: in the host loop every receive attempt is preceded by exactly one
\* prepare_input_buffer call, rx_dsp.process runs exactly once after each
\* successful receive and never after a failed one, and within one process run
\* every RxChannel is processed exactly once with the same intermediate
\* spectrum.
C27_OneIterationOfTheLoop ==
    /\ pc = "receive" =>
          trace = FailedIterations(failed_since_ok) \o <<Call("prepare_input_buffer", 0, <<>>)>>
    /\ pc = "process" =>
          /\ Len(trace) >= 2
          /\ trace = FailuresBefore(2) \o SubSeq(IterationOk(<<>>), 1, 2)
    /\ pc = "prepare" =>
          \/ trace = <<>> /\ ticks = 0 /\ error_count = 0
          \/ trace = FailedIterations(failed_since_ok) /\ error_count >= 1
          \/ /\ error_count = 0
             /\ ticks >= 1
             /\ Len(trace) >= 2 + Len(processors)
             /\ trace = FailuresBefore(2 + Len(processors)) \o IterationOk(FftForward(buffer))
    /\ pc = "exited" => trace = FailedIterations(MaxErrors)

\* a successful iteration after a failed one: both channels were handed the
\* spectrum of the block, which is not zero
C27_Witness ==
    /\ pc = "prepare"
    /\ ticks = 2
    /\ Len(trace) = 6
    /\ trace[2].op = "receive Err"
    /\ trace[5].processor = 1
    /\ trace[6].processor = 2
    /\ trace[5].fft_result = trace[6].fft_result
    /\ \E b \in DOMAIN trace[5].fft_result : trace[5].fft_result[b] # CZero
    /\ processors[1].weights # processors[2].weights

\* the first `overlap` samples of the buffer
OverlapHead(sz, buf) == [i \in 0 .. sz.overlap - 1 |-> buf[i]]

\* C28: overlap continuity across receive errors: for every interleaving of
\* successful and failed receives (a failed receive writing nothing into the
\* slice it was given), whenever rx_dsp.process runs, the first overlap samples
\* of the input buffer equal the last overlap samples of the buffer at the
\* previous rx_dsp.process run (zeros before the first run).
C28_OverlapContinuityAcrossErrors ==
    (pc = "process" /\ ~slice_written) =>
        /\ OverlapHead(size, buffer) = prevTail
        /\ ticks = 0 => prevTail = [i \in 0 .. size.overlap - 1 |-> CZero]

\* rx_dsp.process is about to run a second time, two failed receives after
\* its first run, on a buffer whose overlap is not zero
C28_Witness ==
    /\ pc = "process"
    /\ ~slice_written
    /\ ticks = 1
    /\ Len(trace) = 6
    /\ trace[2].op = "receive Err"
    /\ trace[4].op = "receive Err"
    /\ size.overlap = 4
    /\ OverlapHead(size, buffer) = prevTail
    /\ \A i \in DOMAIN prevTail : prevTail[i] # CZero
    /\ prevTail[0] # prevTail[1]
    /\ OverlapTail(size, buffer) # prevTail

=============================================================================
